---------------------------- MODULE Spec2Model ----------------------------
(***************************************************************************)
(* A model of the ERDTS Synthea ETL pipeline (src/etl/transform.py and     *)
(* src/etl/mappers.py).                                                    *)
(*                                                                         *)
(* Conventions of the model                                                *)
(*  - A Python str is a sequence of one-character strings, so that         *)
(*    formatting, truncation and substring tests are computed.             *)
(*  - A pandas cell is a record [ty, v]: ty is "str", "int" or "nan" and v *)
(*    is the text str() gives for it (the canonical decimal digits of an   *)
(*    int).  Python's None in an output record is the cell of type "none". *)
(*  - Source subject identifiers (the Id / PATIENT columns, UUIDs in       *)
(*    Synthea's output) are opaque TLA+ strings: the code only compares    *)
(*    them and uses them as dictionary keys.                               *)
(***************************************************************************)
EXTENDS Integers, Sequences, FiniteSets, TLC

VARIABLES
    pc,                 \* position of the running function / of main
    dir_exists,         \* args.input_dir.exists()
    files,              \* file name -> [exists, rows]: the input directory
    patient_limit,      \* args.patient_limit / the limit argument
    lab_limit,          \* args.lab_limit / the max_records argument
    chunk_size,         \* [codes, labs]: the chunk_size arguments
    hash_seed,          \* process -> the process's str hash function
    out_dirs,           \* directories created under args.output_dir
    written,            \* sequence of output file names, in write order
    content,            \* output file name -> the records written to it
    exit_status,        \* "running", "0", or "1" (sys.exit(1), uncaught exception)
    warnings,           \* file names a "Warning: ... not found" was printed for
    patients,           \* main's patients
    id_mapping,         \* main's id_mapping
    condition_codes,
    medication_codes,
    lab_codes,
    patient_conditions,
    patient_medications,
    relationships,      \* build_patient_labs' relationships / main's patient_labs
    reader_pos,         \* rows the chunk iterator has consumed
    chunks_read,        \* chunks the chunk iterator has yielded
    chunk,              \* the chunk the for statement holds
    row_idx,            \* the inner loop's position in chunk
    prevalence,         \* process -> result of _estimate_prevalence (hundredths)
    arg,                \* the argument of a function called on its own
    result,             \* its result
    inserted,           \* batch_insert's inserted
    requests            \* the insert requests the client has executed: [batch, ok]

vars == <<pc, dir_exists, files, patient_limit, lab_limit, chunk_size, hash_seed,
          out_dirs, written, content, exit_status, warnings, patients, id_mapping,
          condition_codes, medication_codes, lab_codes, patient_conditions,
          patient_medications, relationships, reader_pos, chunks_read, chunk,
          row_idx, prevalence, arg, result, inserted, requests>>

-----------------------------------------------------------------------------
(* Python strings                                                          *)

UpperChars == <<"A","B","C","D","E","F","G","H","I","J","K","L","M",
                "N","O","P","Q","R","S","T","U","V","W","X","Y","Z">>

LowerChars == <<"a","b","c","d","e","f","g","h","i","j","k","l","m",
                "n","o","p","q","r","s","t","u","v","w","x","y","z">>

DigitChars == <<"0","1","2","3","4","5","6","7","8","9">>

Range(f) == { f[i] : i \in DOMAIN f }

LowerChar(c) ==
    IF \E i \in DOMAIN UpperChars : UpperChars[i] = c
    THEN LowerChars[CHOOSE i \in DOMAIN UpperChars : UpperChars[i] = c]
    ELSE c

\* str.lower()
Lower(s) == [i \in 1..Len(s) |-> LowerChar(s[i])]

\* kw in s
Contains(kw, s) ==
    \E i \in 0..(Len(s) - Len(kw)) : SubSeq(s, i + 1, i + Len(kw)) = kw

\* s[:n]
Truncate(s, n) == IF Len(s) <= n THEN s ELSE SubSeq(s, 1, n)

Min(a, b) == IF a <= b THEN a ELSE b

\* the decimal digits of n >= 0
RECURSIVE Decimal(_)
Decimal(n) ==
    IF n < 10 THEN <<DigitChars[n + 1]>>
    ELSE Decimal(n \div 10) \o <<DigitChars[(n % 10) + 1]>>

\* the format specification 0{w}d applied to n >= 0: zero padding up to a
\* MINIMUM width of w
FormatZeroPadded(n, w) ==
    LET d == Decimal(n)
    IN  IF Len(d) >= w THEN d ELSE [i \in 1..(w - Len(d)) |-> "0"] \o d

-----------------------------------------------------------------------------
(* pandas cells                                                            *)

StrCell(s) == [ty |-> "str", v |-> s]
IntCell(n) == [ty |-> "int", v |-> Decimal(n)]
NaN        == [ty |-> "nan", v |-> <<>>]
None       == [ty |-> "none", v |-> <<>>]

\* pd.notna(cell) / pd.isna(cell)
notna(c) == c.ty # "nan"
isna(c)  == c.ty = "nan"

\* str(cell)
Str(c) == IF c.ty = "nan" THEN <<"n","a","n">> ELSE c.v

\* cell if pd.notna(cell) else None
OrNone(c) == IF notna(c) THEN c ELSE None

-----------------------------------------------------------------------------
(* mappers.py: patient mapping                                             *)

\* str.replace(old, new) for a non-empty old: every non-overlapping
\* occurrence, left to right
RECURSIVE Replace(_, _, _)
Replace(s, old, new) ==
    LET found == { i \in 1..(Len(s) - Len(old) + 1) :
                     SubSeq(s, i, i + Len(old) - 1) = old }
    IN  IF found = {} THEN s
        ELSE LET first == CHOOSE i \in found : \A j \in found : i <= j
             IN  SubSeq(s, 1, first - 1) \o new
                     \o Replace(SubSeq(s, first + Len(old), Len(s)), old, new)

\* race_map, in insertion order
race_map ==
    << <<(<<"w","h","i","t","e">>), "White">>,
       <<(<<"b","l","a","c","k">>), "Black">>,
       <<(<<"a","s","i","a","n">>), "Asian">>,
       <<(<<"n","a","t","i","v","e">>), "Native American">>,
       <<(<<"h","a","w","a","i","i","a","n">>), "Pacific Islander">>,
       <<(<<"o","t","h","e","r">>), "Other">> >>

_normalize_race(race) ==
    IF isna(race) THEN "Unknown"
    ELSE LET race_lower == Lower(Str(race))
             hits == { i \in DOMAIN race_map : Contains(race_map[i][1], race_lower) }
         IN  IF hits = {} THEN "Unknown"
             ELSE race_map[CHOOSE i \in hits : \A j \in hits : i <= j][2]

_normalize_ethnicity(ethnicity) ==
    IF isna(ethnicity) THEN "Unknown"
    ELSE LET ethnicity_lower == Replace(Lower(Str(ethnicity)), <<" ">>, <<>>)
         IN  IF /\ Contains(<<"h","i","s","p","a","n","i","c">>, ethnicity_lower)
                /\ ~Contains(<<"n","o","n">>, ethnicity_lower)
             THEN "Hispanic"
             ELSE IF Contains(<<"n","o","n","h","i","s","p","a","n","i","c">>,
                              ethnicity_lower)
                  THEN "Not Hispanic"
                  ELSE "Unknown"

\* the width in the format specification of the identifier
IdWidth == 5

\* f"SYN-{index:05d}"
SyntheticId(index) == <<"S","Y","N","-">> \o FormatZeroPadded(index, IdWidth)

map_patient(row, index) ==
    [ synthetic_id   |-> SyntheticId(index),
      birth_date     |-> row.BIRTHDATE,
      sex            |-> IF row.GENDER = StrCell(<<"M">>) THEN "male" ELSE "female",
      race           |-> _normalize_race(row.RACE),
      ethnicity      |-> _normalize_ethnicity(row.ETHNICITY),
      marital_status |-> OrNone(row.MARITAL),
      city           |-> OrNone(row.CITY),
      state          |-> OrNone(row.STATE_),
      zip            |-> IF notna(row.ZIP) THEN StrCell(Str(row.ZIP)) ELSE None,
      deceased       |-> notna(row.DEATHDATE),
      deceased_date  |-> OrNone(row.DEATHDATE) ]

-----------------------------------------------------------------------------
(* transform.py: transform_patients                                        *)

EmptyDict == <<>>

\* a head that does not truncate: the whole frame whatever the limit
DfAll(df, n) == df

\* df.head(n): the first n rows, or for a negative n all but the last -n
DfHead(df, n) ==
    IF n >= 0 THEN SubSeq(df, 1, Min(n, Len(df)))
    ELSE SubSeq(df, 1, IF Len(df) + n > 0 THEN Len(df) + n ELSE 0)

\* the loop of transform_patients from its k-th iteration on; the frame has
\* read_csv's default index, so iterrows' idx is k - 1
RECURSIVE TransformPatientsLoop(_, _, _, _)
TransformPatientsLoop(rows, k, pats, mapping) ==
    IF k > Len(rows) THEN [patients |-> pats, id_mapping |-> mapping]
    ELSE LET patient == map_patient(rows[k], (k - 1) + 1)
         IN  TransformPatientsLoop(rows, k + 1, Append(pats, patient),
                 (rows[k].Id :> patient.synthetic_id) @@ mapping)

transform_patients(df, limit) ==
    TransformPatientsLoop(DfHead(df, limit), 1, <<>>, EmptyDict)

-----------------------------------------------------------------------------
(* transform.py: reading the input files with pandas                       *)
(*                                                                         *)
(* A file is a sequence of rows of cell texts (the empty text is an empty  *)
(* cell).  read_csv gives the PATIENT / Id column as it stands, parses the *)
(* text columns (DESCRIPTION, UNITS, dates) to str cells or NaN, and       *)
(* infers the type of the CODE and VALUE columns.  With low_memory=True    *)
(* (the load in load_synthea_csv, and read_csv's default for the chunked   *)
(* reads) the parser infers the type separately for each internal block of *)
(* buffer_lines rows and concatenates the blocks, so one column can hold   *)
(* ints and strs ("mixed types").                                          *)

\* rows the C parser types at once: 2^20 // table_width rounded down to a
\* power of two in pandas, scaled down here
BufferLines == 2

IsDigit(c) == \E i \in DOMAIN DigitChars : DigitChars[i] = c

IsIntText(t) == Len(t) >= 1 /\ \A i \in 1..Len(t) : IsDigit(t[i])

\* digits "." digits
IsFloatText(t) ==
    \E d \in 1..Len(t) :
        /\ t[d] = "."
        /\ d > 1 /\ d < Len(t)
        /\ \A i \in (1..Len(t)) \ {d} : IsDigit(t[i])

IsNAText(t) == t = <<>>

\* t without its leading zeros, but for the last character of t
StripLeadingZeros(t) ==
    LET kept == { i \in 1..Len(t) : i = Len(t) \/ t[i] # "0" }
    IN  IF t = <<>> THEN t
        ELSE SubSeq(t, CHOOSE i \in kept : \A j \in kept : i <= j, Len(t))

RECURSIVE StripTrailingZeros(_)
StripTrailingZeros(t) ==
    IF Len(t) > 1 /\ t[Len(t)] = "0"
    THEN StripTrailingZeros(SubSeq(t, 1, Len(t) - 1)) ELSE t

\* str(float(t)) for a short decimal text t
FloatRepr(t) ==
    IF IsIntText(t) THEN StripLeadingZeros(t) \o <<".", "0">>
    ELSE LET d == CHOOSE i \in 1..Len(t) : t[i] = "."
         IN  StripLeadingZeros(SubSeq(t, 1, d - 1)) \o <<".">>
                 \o StripTrailingZeros(SubSeq(t, d + 1, Len(t)))

\* the dtype the parser infers for one block of a column
InferType(texts) ==
    IF \A i \in DOMAIN texts : IsIntText(texts[i]) THEN "int"
    ELSE IF \A i \in DOMAIN texts :
                IsIntText(texts[i]) \/ IsFloatText(texts[i]) \/ IsNAText(texts[i])
         THEN "float"
         ELSE "str"

ParseCell(ty, t) ==
    IF ty = "int" THEN [ty |-> "int", v |-> StripLeadingZeros(t)]
    ELSE IF IsNAText(t) THEN NaN
    ELSE IF ty = "float" THEN [ty |-> "float", v |-> FloatRepr(t)]
    ELSE StrCell(t)

\* a text column
ParseText(t) == ParseCell("str", t)

\* the parser's block that holds row i
BlockOf(rows, i) ==
    LET b == (i - 1) \div BufferLines
    IN  SubSeq(rows, b * BufferLines + 1, Min((b + 1) * BufferLines, Len(rows)))

\* the dtype inferred for column col in the block of row i
BlockType(rows, col, i) ==
    LET block == BlockOf(rows, i)
    IN  InferType([j \in DOMAIN block |-> block[j][col]])

\* the type of the cell of row i after the blocks are concatenated: int64
\* and float64 blocks make a float64 column; with a str block the column is
\* of dtype object and every cell keeps the type of its block
CellType(rows, col, i) ==
    LET tys == { BlockType(rows, col, j) : j \in DOMAIN rows }
        ty  == BlockType(rows, col, i)
    IN  IF ty = "int" /\ "float" \in tys /\ "str" \notin tys THEN "float" ELSE ty

\* a row of patients.csv as a pandas row
PatientRow(r, zip_ty) ==
    [ Id        |-> r.Id,
      BIRTHDATE |-> ParseText(r.BIRTHDATE),
      DEATHDATE |-> ParseText(r.DEATHDATE),
      GENDER    |-> ParseText(r.GENDER),
      RACE      |-> ParseText(r.RACE),
      ETHNICITY |-> ParseText(r.ETHNICITY),
      MARITAL   |-> ParseText(r.MARITAL),
      CITY      |-> ParseText(r.CITY),
      STATE_    |-> ParseText(r.STATE_),
      ZIP       |-> ParseCell(zip_ty, r.ZIP) ]

\* a row of conditions.csv or medications.csv as a pandas row
EventRow(r, code_ty) ==
    [ PATIENT     |-> r.PATIENT,
      CODE        |-> ParseCell(code_ty, r.CODE),
      DESCRIPTION |-> ParseText(r.DESCRIPTION),
      START       |-> ParseText(r.START),
      STOP        |-> ParseText(r.STOP) ]

\* a row of observations.csv as a pandas row
ObservationRow(r, code_ty, value_ty) ==
    [ PATIENT     |-> r.PATIENT,
      CODE        |-> ParseCell(code_ty, r.CODE),
      DESCRIPTION |-> ParseText(r.DESCRIPTION),
      DATE        |-> ParseText(r.DATE),
      VALUE       |-> ParseCell(value_ty, r.VALUE),
      UNITS       |-> ParseText(r.UNITS),
      TYPE        |-> ParseText(r.TYPE) ]

\* the rows of one read (a whole file, or one chunk of a chunked read)
ParsePatientRows(rows) ==
    [i \in DOMAIN rows |-> PatientRow(rows[i], CellType(rows, "ZIP", i))]

ParseEventRows(rows) ==
    [i \in DOMAIN rows |-> EventRow(rows[i], CellType(rows, "CODE", i))]

ParseObservationRows(rows) ==
    [i \in DOMAIN rows |->
        ObservationRow(rows[i], CellType(rows, "CODE", i), CellType(rows, "VALUE", i))]

\* pd.DataFrame(): no columns, no rows
EmptyFrame == [columns |-> {}, rows |-> <<>>]

PatientColumns == {"Id", "BIRTHDATE", "DEATHDATE", "GENDER", "RACE", "ETHNICITY",
                   "MARITAL", "CITY", "STATE", "ZIP"}

EventColumns == {"PATIENT", "CODE", "DESCRIPTION", "START", "STOP"}

\* load_synthea_csv: the frame, and whether the warning was printed
load_synthea_csv(file, filename) ==
    IF ~file.exists
    THEN [warned |-> TRUE, df |-> EmptyFrame]
    ELSE [warned |-> FALSE,
          df |-> IF filename = "patients.csv"
                 THEN [columns |-> PatientColumns, rows |-> ParsePatientRows(file.rows)]
                 ELSE [columns |-> EventColumns, rows |-> ParseEventRows(file.rows)]]

\* a test of df.empty that never finds a frame empty
NeverEmpty(df) == FALSE

\* df.empty
Empty(df) == df.columns = {} \/ df.rows = <<>>

-----------------------------------------------------------------------------
(* mappers.py: code mapping                                                *)

WhitespaceChars == {" ", "\t", "\n", "\r", "\f"}

IsAlpha(c) ==
    \/ \E i \in DOMAIN UpperChars : UpperChars[i] = c
    \/ \E i \in DOMAIN LowerChars : LowerChars[i] = c

\* str.strip()
RECURSIVE Strip(_)
Strip(s) ==
    IF s = <<>> THEN s
    ELSE IF s[1] \in WhitespaceChars THEN Strip(Tail(s))
    ELSE IF s[Len(s)] \in WhitespaceChars THEN Strip(SubSeq(s, 1, Len(s) - 1))
    ELSE s

\* the label of the LAST pair of table with a keyword in desc_lower
LastLabel(table, desc_lower) ==
    LET hits == { i \in DOMAIN table :
                    \E k \in DOMAIN table[i][1] : Contains(table[i][1][k], desc_lower) }
    IN  IF hits = {} THEN "Other"
        ELSE table[CHOOSE i \in hits : \A j \in hits : i >= j][2]

\* the label of the first (keywords, label) pair of table with a keyword in
\* desc_lower, else "Other"
FirstLabel(table, desc_lower) ==
    LET hits == { i \in DOMAIN table :
                    \E k \in DOMAIN table[i][1] : Contains(table[i][1][k], desc_lower) }
    IN  IF hits = {} THEN "Other"
        ELSE table[CHOOSE i \in hits : \A j \in hits : i <= j][2]

\* categories in _categorize_condition (mappers.py lines 96-111): (keywords, label), in order
categories ==
    <<
       << << <<"h","y","p","e","r","t","e","n","s","i","o","n">>, <<"h","e","a","r","t">>, <<"c","a","r","d","i","a","c">>, <<"c","o","r","o","n","a","r","y">>, <<"a","t","r","i","a","l">>, <<"a","n","g","i","n","a">>, <<"c","a","r","d","i","o","m","y","o","p","a","t","h","y">>, <<"a","o","r","t","i","c">>, <<"a","r","r","h","y","t","h","m","i","a">> >>,
          "Cardiovascular" >>,
       << << <<"d","i","a","b","e","t","e","s">>, <<"t","h","y","r","o","i","d">>, <<"m","e","t","a","b","o","l","i","c">>, <<"o","b","e","s","i","t","y">>, <<"h","y","p","e","r","l","i","p","i","d","e","m","i","a">>, <<"c","h","o","l","e","s","t","e","r","o","l">>, <<"i","n","s","u","l","i","n">> >>,
          "Endocrine" >>,
       << << <<"a","s","t","h","m","a">>, <<"c","o","p","d">>, <<"b","r","o","n","c","h","i","t","i","s">>, <<"p","n","e","u","m","o","n","i","a">>, <<"r","e","s","p","i","r","a","t","o","r","y">>, <<"l","u","n","g">>, <<"p","u","l","m","o","n","a","r","y">> >>,
          "Respiratory" >>,
       << << <<"c","a","n","c","e","r">>, <<"c","a","r","c","i","n","o","m","a">>, <<"t","u","m","o","r">>, <<"n","e","o","p","l","a","s","m">>, <<"m","a","l","i","g","n","a","n","t">>, <<"l","y","m","p","h","o","m","a">>, <<"l","e","u","k","e","m","i","a">>, <<"m","e","l","a","n","o","m","a">> >>,
          "Oncology" >>,
       << << <<"d","e","p","r","e","s","s","i","o","n">>, <<"a","n","x","i","e","t","y">>, <<"b","i","p","o","l","a","r">>, <<"s","c","h","i","z","o","p","h","r","e","n","i","a">>, <<"m","e","n","t","a","l">>, <<"p","s","y","c","h","i","a","t","r","i","c">>, <<"s","t","r","e","s","s">>, <<"p","a","n","i","c">>, <<"p","t","s","d">> >>,
          "Mental Health" >>,
       << << <<"a","r","t","h","r","i","t","i","s">>, <<"o","s","t","e","o">>, <<"f","r","a","c","t","u","r","e">>, <<"b","a","c","k"," ","p","a","i","n">>, <<"j","o","i","n","t">>, <<"m","u","s","c","u","l","o","s","k","e","l","e","t","a","l">>, <<"s","p","r","a","i","n">>, <<"s","t","r","a","i","n">> >>,
          "Musculoskeletal" >>,
       << << <<"k","i","d","n","e","y">>, <<"r","e","n","a","l">>, <<"u","r","i","n","a","r","y">>, <<"b","l","a","d","d","e","r">>, <<"c","y","s","t","i","t","i","s">>, <<"n","e","p","h","r","o">> >>,
          "Genitourinary" >>,
       << << <<"g","a","s","t","r","i","t","i","s">>, <<"r","e","f","l","u","x">>, <<"g","e","r","d">>, <<"l","i","v","e","r">>, <<"h","e","p","a","t","i","t","i","s">>, <<"b","o","w","e","l">>, <<"c","o","l","i","t","i","s">>, <<"d","i","g","e","s","t","i","v","e">>, <<"i","n","t","e","s","t","i","n">> >>,
          "Digestive" >>,
       << << <<"s","t","r","o","k","e">>, <<"a","l","z","h","e","i","m","e","r">>, <<"d","e","m","e","n","t","i","a">>, <<"p","a","r","k","i","n","s","o","n">>, <<"e","p","i","l","e","p","s","y">>, <<"s","e","i","z","u","r","e">>, <<"n","e","u","r","o","p","a","t","h","y">>, <<"m","i","g","r","a","i","n","e">>, <<"c","e","r","e","b","r">> >>,
          "Nervous System" >>,
       << << <<"i","n","f","e","c","t","i","o","n">>, <<"s","e","p","s","i","s">>, <<"b","a","c","t","e","r","i","a","l">>, <<"v","i","r","a","l">>, <<"h","i","v">>, <<"t","u","b","e","r","c","u","l","o","s","i","s">>, <<"p","n","e","u","m","o","n","i","a">> >>,
          "Infectious" >>,
       << << <<"a","n","e","m","i","a">>, <<"b","l","o","o","d">>, <<"c","o","a","g","u","l","a","t","i","o","n">>, <<"p","l","a","t","e","l","e","t">>, <<"h","e","m","o","p","h","i","l","i","a">>, <<"t","h","r","o","m","b","o","c","y","t">> >>,
          "Blood/Immune" >>,
       << << <<"p","r","e","g","n","a","n","c","y">>, <<"p","r","e","n","a","t","a","l">>, <<"c","h","i","l","d","b","i","r","t","h">>, <<"m","i","s","c","a","r","r","i","a","g","e">>, <<"g","e","s","t","a","t","i","o","n">>, <<"f","e","t","a","l">> >>,
          "Pregnancy" >>,
       << << <<"d","e","r","m","a","t","i","t","i","s">>, <<"e","c","z","e","m","a">>, <<"p","s","o","r","i","a","s","i","s">>, <<"s","k","i","n">>, <<"a","c","n","e">>, <<"r","a","s","h">>, <<"w","o","u","n","d">> >>,
          "Skin" >>,
       << << <<"e","m","p","l","o","y","m","e","n","t">>, <<"e","d","u","c","a","t","i","o","n">>, <<"h","o","u","s","i","n","g">>, <<"s","o","c","i","a","l">>, <<"f","i","n","d","i","n","g">>, <<"s","i","t","u","a","t","i","o","n">> >>,
          "Social/Administrative" >>
    >>


_categorize_condition(description) == FirstLabel(categories, Lower(description))

\* hash(code) % 30, then round(0.01 + hash_val / 100, 2): the result in
\* hundredths.  hash is the running process's str hash
_estimate_prevalence(code, hash) == 1 + (hash[code] % 30)

\* the suffixes map_condition_code removes, in the order of its loop
suffixes ==
    << <<" ","(","d","i","s","o","r","d","e","r",")">>,
       <<" ","(","f","i","n","d","i","n","g",")">>,
       <<" ","(","s","i","t","u","a","t","i","o","n",")">>,
       <<" ","(","p","r","o","c","e","d","u","r","e",")">> >>

RECURSIVE RemoveSuffixes(_, _)
RemoveSuffixes(clean_name, k) ==
    IF k > Len(suffixes) THEN clean_name
    ELSE RemoveSuffixes(Replace(clean_name, suffixes[k], <<>>), k + 1)

map_condition_code(row, hash) ==
    LET description == Str(row.DESCRIPTION)
        clean_name  == RemoveSuffixes(description, 1)
    IN  [ code       |-> Str(row.CODE),
          name       |-> Truncate(Strip(clean_name), 200),
          snomedCode |-> Str(row.CODE),
          category   |-> _categorize_condition(description),
          prevalence |-> _estimate_prevalence(Str(row.CODE), hash) ]

\* drug_classes in _categorize_drug (mappers.py lines 159-180): (keywords, label), in order
drug_classes ==
    <<
       << << <<"l","i","s","i","n","o","p","r","i","l">>, <<"e","n","a","l","a","p","r","i","l">>, <<"r","a","m","i","p","r","i","l">>, <<"c","a","p","t","o","p","r","i","l">>, <<"b","e","n","a","z","e","p","r","i","l">> >>,
          "ACE Inhibitor" >>,
       << << <<"l","o","s","a","r","t","a","n">>, <<"v","a","l","s","a","r","t","a","n">>, <<"i","r","b","e","s","a","r","t","a","n">>, <<"o","l","m","e","s","a","r","t","a","n">>, <<"c","a","n","d","e","s","a","r","t","a","n">> >>,
          "ARB" >>,
       << << <<"m","e","t","o","p","r","o","l","o","l">>, <<"a","t","e","n","o","l","o","l">>, <<"c","a","r","v","e","d","i","l","o","l">>, <<"p","r","o","p","r","a","n","o","l","o","l">>, <<"b","i","s","o","p","r","o","l","o","l">> >>,
          "Beta Blocker" >>,
       << << <<"a","m","l","o","d","i","p","i","n","e">>, <<"n","i","f","e","d","i","p","i","n","e">>, <<"d","i","l","t","i","a","z","e","m">>, <<"v","e","r","a","p","a","m","i","l">> >>,
          "Calcium Channel Blocker" >>,
       << << <<"h","y","d","r","o","c","h","l","o","r","o","t","h","i","a","z","i","d","e">>, <<"f","u","r","o","s","e","m","i","d","e">>, <<"s","p","i","r","o","n","o","l","a","c","t","o","n","e">>, <<"c","h","l","o","r","t","h","a","l","i","d","o","n","e">>, <<"b","u","m","e","t","a","n","i","d","e">> >>,
          "Diuretic" >>,
       << << <<"a","t","o","r","v","a","s","t","a","t","i","n">>, <<"s","i","m","v","a","s","t","a","t","i","n">>, <<"r","o","s","u","v","a","s","t","a","t","i","n">>, <<"p","r","a","v","a","s","t","a","t","i","n">>, <<"l","o","v","a","s","t","a","t","i","n">> >>,
          "Statin" >>,
       << << <<"m","e","t","f","o","r","m","i","n">>, <<"g","l","i","p","i","z","i","d","e">>, <<"g","l","y","b","u","r","i","d","e">>, <<"p","i","o","g","l","i","t","a","z","o","n","e">>, <<"s","i","t","a","g","l","i","p","t","i","n">>, <<"e","m","p","a","g","l","i","f","l","o","z","i","n">> >>,
          "Antidiabetic" >>,
       << << <<"i","n","s","u","l","i","n">> >>,
          "Insulin" >>,
       << << <<"w","a","r","f","a","r","i","n">>, <<"a","p","i","x","a","b","a","n">>, <<"r","i","v","a","r","o","x","a","b","a","n">>, <<"d","a","b","i","g","a","t","r","a","n">>, <<"h","e","p","a","r","i","n">>, <<"e","n","o","x","a","p","a","r","i","n">> >>,
          "Anticoagulant" >>,
       << << <<"a","s","p","i","r","i","n">>, <<"c","l","o","p","i","d","o","g","r","e","l">>, <<"t","i","c","a","g","r","e","l","o","r">>, <<"p","r","a","s","u","g","r","e","l">> >>,
          "Antiplatelet" >>,
       << << <<"o","m","e","p","r","a","z","o","l","e">>, <<"p","a","n","t","o","p","r","a","z","o","l","e">>, <<"e","s","o","m","e","p","r","a","z","o","l","e">>, <<"l","a","n","s","o","p","r","a","z","o","l","e">>, <<"r","a","b","e","p","r","a","z","o","l","e">> >>,
          "Proton Pump Inhibitor" >>,
       << << <<"s","e","r","t","r","a","l","i","n","e">>, <<"f","l","u","o","x","e","t","i","n","e">>, <<"e","s","c","i","t","a","l","o","p","r","a","m">>, <<"c","i","t","a","l","o","p","r","a","m">>, <<"p","a","r","o","x","e","t","i","n","e">> >>,
          "SSRI Antidepressant" >>,
       << << <<"g","a","b","a","p","e","n","t","i","n">>, <<"p","r","e","g","a","b","a","l","i","n">>, <<"t","o","p","i","r","a","m","a","t","e">>, <<"l","e","v","e","t","i","r","a","c","e","t","a","m">>, <<"c","a","r","b","a","m","a","z","e","p","i","n","e">>, <<"p","h","e","n","y","t","o","i","n">>, <<"v","a","l","p","r","o","i","c">> >>,
          "Anticonvulsant" >>,
       << << <<"a","l","b","u","t","e","r","o","l">>, <<"s","a","l","b","u","t","a","m","o","l">>, <<"i","p","r","a","t","r","o","p","i","u","m">>, <<"t","i","o","t","r","o","p","i","u","m">>, <<"b","u","d","e","s","o","n","i","d","e">>, <<"f","l","u","t","i","c","a","s","o","n","e">> >>,
          "Respiratory" >>,
       << << <<"p","e","n","i","c","i","l","l","i","n">>, <<"a","m","o","x","i","c","i","l","l","i","n">>, <<"a","z","i","t","h","r","o","m","y","c","i","n">>, <<"c","i","p","r","o","f","l","o","x","a","c","i","n">>, <<"l","e","v","o","f","l","o","x","a","c","i","n">>, <<"d","o","x","y","c","y","c","l","i","n","e">>, <<"c","e","p","h","a","l","e","x","i","n">> >>,
          "Antibiotic" >>,
       << << <<"a","c","e","t","a","m","i","n","o","p","h","e","n">>, <<"i","b","u","p","r","o","f","e","n">>, <<"n","a","p","r","o","x","e","n">>, <<"d","i","c","l","o","f","e","n","a","c">>, <<"m","e","l","o","x","i","c","a","m">>, <<"c","e","l","e","c","o","x","i","b">> >>,
          "Analgesic/NSAID" >>,
       << << <<"o","x","y","c","o","d","o","n","e">>, <<"h","y","d","r","o","c","o","d","o","n","e">>, <<"m","o","r","p","h","i","n","e">>, <<"f","e","n","t","a","n","y","l">>, <<"t","r","a","m","a","d","o","l">>, <<"c","o","d","e","i","n","e">> >>,
          "Opioid" >>,
       << << <<"l","e","v","o","t","h","y","r","o","x","i","n","e">>, <<"s","y","n","t","h","r","o","i","d">> >>,
          "Thyroid Hormone" >>,
       << << <<"p","r","e","d","n","i","s","o","n","e">>, <<"m","e","t","h","y","l","p","r","e","d","n","i","s","o","l","o","n","e">>, <<"d","e","x","a","m","e","t","h","a","s","o","n","e">>, <<"h","y","d","r","o","c","o","r","t","i","s","o","n","e">> >>,
          "Corticosteroid" >>,
       << << <<"c","o","n","t","r","a","c","e","p","t","i","v","e">>, <<"l","e","v","o","n","o","r","g","e","s","t","r","e","l">>, <<"e","t","h","i","n","y","l"," ","e","s","t","r","a","d","i","o","l">>, <<"n","o","r","e","t","h","i","n","d","r","o","n","e">> >>,
          "Contraceptive" >>
    >>


_categorize_drug(description) == FirstLabel(drug_classes, Lower(description))

\* the longest run of letters at the start of s
RECURSIVE AlphaRun(_)
AlphaRun(s) ==
    IF s # <<>> /\ IsAlpha(s[1]) THEN <<s[1]>> \o AlphaRun(Tail(s)) ELSE <<>>

RECURSIVE SpaceRun(_)
SpaceRun(s) ==
    IF s # <<>> /\ s[1] \in WhitespaceChars THEN <<s[1]>> \o SpaceRun(Tail(s)) ELSE <<>>

Drop(s, n) == SubSeq(s, n + 1, Len(s))

\* description.split(): the maximal runs of non-whitespace characters
RECURSIVE Split(_)
Split(s) ==
    IF s = <<>> THEN <<>>
    ELSE IF s[1] \in WhitespaceChars THEN Split(Tail(s))
    ELSE LET n == CHOOSE m \in 1..Len(s) :
                    /\ \A i \in 1..m : s[i] \notin WhitespaceChars
                    /\ m = Len(s) \/ s[m + 1] \in WhitespaceChars
         IN  <<SubSeq(s, 1, n)>> \o Split(Drop(s, n))

\* re.match(r"^([a-zA-Z]+(?:\s+[a-zA-Z]+)?)", description), else the first
\* whitespace-separated part, else "unknown"
_extract_generic_name(description) ==
    LET first  == AlphaRun(description)
        rest   == Drop(description, Len(first))
        spaces == SpaceRun(rest)
        second == AlphaRun(Drop(rest, Len(spaces)))
        parts  == Split(description)
    IN  IF first # <<>>
        THEN IF spaces # <<>> /\ second # <<>>
             THEN Lower(first \o spaces \o second)
             ELSE Lower(first)
        ELSE IF parts # <<>> THEN Lower(parts[1])
        ELSE <<"u","n","k","n","o","w","n">>

map_medication_code(row) ==
    LET description == Str(row.DESCRIPTION)
    IN  [ code        |-> Str(row.CODE),
          name        |-> Truncate(description, 150),
          genericName |-> _extract_generic_name(description),
          drugClass   |-> _categorize_drug(description),
          rxnorm      |-> Str(row.CODE) ]

\* lab_categories in _categorize_lab (mappers.py lines 218-231): (keywords, label), in order
lab_categories ==
    <<
       << << <<"g","l","u","c","o","s","e">>, <<"h","e","m","o","g","l","o","b","i","n"," ","a","1","c">>, <<"h","b","a","1","c">> >>,
          "Glucose/Diabetes" >>,
       << << <<"c","h","o","l","e","s","t","e","r","o","l">>, <<"l","d","l">>, <<"h","d","l">>, <<"t","r","i","g","l","y","c","e","r","i","d","e">>, <<"l","i","p","i","d">> >>,
          "Lipid Panel" >>,
       << << <<"c","r","e","a","t","i","n","i","n","e">>, <<"b","u","n">>, <<"e","g","f","r">>, <<"u","r","e","a">> >>,
          "Kidney Function" >>,
       << << <<"a","l","t">>, <<"a","s","t">>, <<"b","i","l","i","r","u","b","i","n">>, <<"a","l","k","a","l","i","n","e"," ","p","h","o","s","p","h","a","t","a","s","e">>, <<"l","i","v","e","r">>, <<"a","l","b","u","m","i","n">> >>,
          "Liver Function" >>,
       << << <<"h","e","m","o","g","l","o","b","i","n">>, <<"h","e","m","a","t","o","c","r","i","t">>, <<"w","b","c">>, <<"r","b","c">>, <<"p","l","a","t","e","l","e","t">>, <<"m","c","v">>, <<"m","c","h">>, <<"l","e","u","k","o","c","y","t","e">>, <<"e","r","y","t","h","r","o","c","y","t","e">> >>,
          "Hematology" >>,
       << << <<"s","o","d","i","u","m">>, <<"p","o","t","a","s","s","i","u","m">>, <<"c","h","l","o","r","i","d","e">>, <<"b","i","c","a","r","b","o","n","a","t","e">>, <<"c","a","l","c","i","u","m">>, <<"m","a","g","n","e","s","i","u","m">>, <<"p","h","o","s","p","h">> >>,
          "Electrolytes" >>,
       << << <<"t","s","h">>, <<"t","3">>, <<"t","4">>, <<"t","h","y","r","o","i","d">> >>,
          "Thyroid" >>,
       << << <<"t","r","o","p","o","n","i","n">>, <<"b","n","p">>, <<"p","r","o","t","h","r","o","m","b","i","n">>, <<"i","n","r">>, <<"p","t","t">> >>,
          "Cardiac/Coagulation" >>,
       << << <<"u","r","i","n","e">>, <<"u","r","i","n","a","l","y","s","i","s">> >>,
          "Urinalysis" >>,
       << << <<"i","g","e">>, <<"a","l","l","e","r","g">> >>,
          "Allergy" >>,
       << << <<"b","l","o","o","d"," ","p","r","e","s","s","u","r","e">>, <<"h","e","a","r","t"," ","r","a","t","e">>, <<"r","e","s","p","i","r","a","t","o","r","y"," ","r","a","t","e">>, <<"t","e","m","p","e","r","a","t","u","r","e">>, <<"o","x","y","g","e","n">>, <<"b","m","i">>, <<"w","e","i","g","h","t">>, <<"h","e","i","g","h","t">>, <<"p","a","i","n">> >>,
          "Vital Signs" >>,
       << << <<"p","s","a">>, <<"c","a","n","c","e","r">>, <<"t","u","m","o","r">>, <<"c","e","a">>, <<"c","a","-","1","2","5">>, <<"a","f","p">> >>,
          "Tumor Markers" >>
    >>


\* a categorisation without the default label
CategorizeWithoutDefault(description) ==
    LET label == FirstLabel(lab_categories, Lower(description))
    IN  IF label = "Other" THEN "" ELSE label

_categorize_lab(description) == FirstLabel(lab_categories, Lower(description))

\* ranges in _get_normal_range (mappers.py lines 246-258), in insertion order:
\* (keyword, unit hint, bounds); the bounds are in tenths
ranges ==
    <<
       << <<"g","l","u","c","o","s","e">>, <<"m","g">>,
          [normalLow |-> 700, normalHigh |-> 1000, criticalLow |-> 500, criticalHigh |-> 4000] >>,
       << <<"h","e","m","o","g","l","o","b","i","n"," ","a","1","c">>,
          <<>>,
          [normalLow |-> 40, normalHigh |-> 56] >>,
       << <<"c","r","e","a","t","i","n","i","n","e">>, <<"m","g">>,
          [normalLow |-> 7, normalHigh |-> 13] >>,
       << <<"c","h","o","l","e","s","t","e","r","o","l">>, <<"m","g">>,
          [normalLow |-> 0, normalHigh |-> 2000] >>,
       << <<"l","d","l">>, <<"m","g">>,
          [normalLow |-> 0, normalHigh |-> 1000] >>,
       << <<"h","d","l">>, <<"m","g">>,
          [normalLow |-> 400, normalHigh |-> 600] >>,
       << <<"t","r","i","g","l","y","c","e","r","i","d","e">>, <<"m","g">>,
          [normalLow |-> 0, normalHigh |-> 1500] >>,
       << <<"h","e","m","o","g","l","o","b","i","n">>, <<"g","/","d","l">>,
          [normalLow |-> 120, normalHigh |-> 175] >>,
       << <<"p","l","a","t","e","l","e","t">>,
          <<>>,
          [normalLow |-> 1500000, normalHigh |-> 4000000] >>,
       << <<"s","o","d","i","u","m">>, <<"m","m","o","l">>,
          [normalLow |-> 1360, normalHigh |-> 1450] >>,
       << <<"p","o","t","a","s","s","i","u","m">>, <<"m","m","o","l">>,
          [normalLow |-> 35, normalHigh |-> 50, criticalLow |-> 25, criticalHigh |-> 65] >>
    >>

\* the bounds of the first entry of ranges that applies, else the empty
\* dictionary (None)
\* a lookup by keyword alone, whatever the unit
RangeByKeyword(description, unit) ==
    LET hits == { i \in DOMAIN ranges : Contains(ranges[i][1], Lower(description)) }
    IN  IF hits = {} THEN EmptyDict
        ELSE ranges[CHOOSE i \in hits : \A j \in hits : i <= j][3]

_get_normal_range(description, unit) ==
    LET desc_lower == Lower(description)
        unit_lower == Lower(unit)
        hits == { i \in DOMAIN ranges :
                    /\ Contains(ranges[i][1], desc_lower)
                    /\ ranges[i][2] = <<>> \/ Contains(ranges[i][2], unit_lower) }
    IN  IF hits = {} THEN EmptyDict
        ELSE ranges[CHOOSE i \in hits : \A j \in hits : i <= j][3]

map_lab_code(row) ==
    LET description == Str(row.DESCRIPTION)
        unit        == IF notna(row.UNITS) THEN Str(row.UNITS) ELSE <<>>
        lab == [ code      |-> Str(row.CODE),
                 name      |-> Truncate(description, 150),
                 loincCode |-> Str(row.CODE),
                 category  |-> _categorize_lab(description),
                 unit      |-> Truncate(unit, 20) ]
    IN  _get_normal_range(description, unit) @@ lab

-----------------------------------------------------------------------------
(* mappers.py: relationship mapping                                        *)

map_patient_condition(synthetic_id, row) ==
    [ patient_synthetic_id |-> synthetic_id,
      condition_code       |-> Str(row.CODE),
      onset_date           |-> OrNone(row.START),
      resolution_date      |-> OrNone(row.STOP) ]

map_patient_medication(synthetic_id, row) ==
    [ patient_synthetic_id |-> synthetic_id,
      medication_code      |-> Str(row.CODE),
      start_date           |-> OrNone(row.START),
      end_date             |-> OrNone(row.STOP) ]

\* a parse that fails for every value
NeverParses(value) == FALSE

\* float(value) succeeds: value is a number, or a str holding a decimal
\* literal (the literals of the model are digits and digits "." digits)
FloatParses(value) ==
    value.ty \in {"int", "float"} \/ IsIntText(value.v) \/ IsFloatText(value.v)

map_patient_lab(synthetic_id, row) ==
    LET value == row.VALUE
        numeric == notna(value) /\ FloatParses(value)
    IN  [ patient_synthetic_id |-> synthetic_id,
          lab_code      |-> Str(row.CODE),
          result_date   |-> OrNone(row.DATE),
          value_numeric |-> IF numeric
                            THEN [ty |-> "float",
                                  v  |-> IF value.ty = "float" THEN value.v
                                         ELSE FloatRepr(value.v)]
                            ELSE None,
          value_text    |-> IF notna(value) THEN StrCell(Truncate(Str(value), 100))
                            ELSE None,
          unit          |-> IF notna(row.UNITS)
                            THEN StrCell(Truncate(Str(row.UNITS), 20)) ELSE None ]

-----------------------------------------------------------------------------
(* transform.py: the code catalogs                                         *)

\* what drop_duplicates compares: cells are equal as Python objects, so the
\* int 1 and the float 1.0 are equal, and the int 1 and the str "1" are not
RawKey(c) ==
    IF c.ty = "int" THEN [ty |-> "number", v |-> c.v \o <<".", "0">>]
    ELSE IF c.ty = "float" THEN [ty |-> "number", v |-> c.v]
    ELSE c

\* a filter that keeps the rows of every subject
AllSubjects(rows, patient_synthea_ids) == rows

\* df[df["PATIENT"].isin(patient_synthea_ids)]
FilterCohort(rows, patient_synthea_ids) ==
    LET InCohort(r) == r.PATIENT \in patient_synthea_ids
    IN  SelectSeq(rows, InCohort)

\* the positions drop_duplicates(subset=["CODE"]) keeps: the first row of
\* every CODE value
KeptPositions(rows) ==
    { i \in DOMAIN rows :
        \A j \in 1..(i - 1) : RawKey(rows[j].CODE) # RawKey(rows[i].CODE) }

RECURSIVE DropDuplicatesFrom(_, _)
DropDuplicatesFrom(rows, i) ==
    IF i > Len(rows) THEN <<>>
    ELSE (IF i \in KeptPositions(rows) THEN <<rows[i]>> ELSE <<>>)
             \o DropDuplicatesFrom(rows, i + 1)

\* rows.drop_duplicates(subset=["CODE"])
DropDuplicates(rows) == DropDuplicatesFrom(rows, 1)

\* the result of a function that can raise: df["PATIENT"] raises KeyError
\* for a frame without that column
Raise(exception) == [raised |-> exception, value |-> <<>>]
Return(value)    == [raised |-> "", value |-> value]

extract_condition_codes(df, patient_synthea_ids, hash) ==
    IF "PATIENT" \notin df.columns THEN Raise("KeyError")
    ELSE LET filtered     == FilterCohort(df.rows, patient_synthea_ids)
             unique_codes == DropDuplicates(filtered)
         IN  Return([i \in DOMAIN unique_codes |->
                        map_condition_code(unique_codes[i], hash)])

extract_medication_codes(df, patient_synthea_ids) ==
    IF "PATIENT" \notin df.columns THEN Raise("KeyError")
    ELSE LET filtered     == FilterCohort(df.rows, patient_synthea_ids)
             unique_codes == DropDuplicates(filtered)
         IN  Return([i \in DOMAIN unique_codes |->
                        map_medication_code(unique_codes[i])])

\* the chunk the iterator of read_csv(chunksize=size) yields after pos rows
NextChunk(file, pos, size) ==
    ParseObservationRows(SubSeq(file.rows, pos + 1, Min(pos + size, Len(file.rows))))

\* a test that never finds the key in the dict
KeyNeverFound(dict, key) == FALSE

\* unique_labs is a dict in insertion order: a sequence of (code, entry)
HasKey(dict, key) == \E i \in DOMAIN dict : dict[i][1] = key

\* the inner loop of extract_lab_codes over the rows of one chunk
RECURSIVE LabCodesRows(_, _, _)
LabCodesRows(rows, i, unique_labs) ==
    IF i > Len(rows) THEN unique_labs
    ELSE LET code == Str(rows[i].CODE)
         IN  LabCodesRows(rows, i + 1,
                 IF ~HasKey(unique_labs, code)
                 THEN Append(unique_labs, <<code, map_lab_code(rows[i])>>)
                 ELSE unique_labs)

\* the loop of extract_lab_codes over the chunks, from row pos of the file
RECURSIVE LabCodesChunks(_, _, _, _, _)
LabCodesChunks(file, pos, size, patient_synthea_ids, unique_labs) ==
    IF pos >= Len(file.rows) THEN unique_labs
    ELSE LET chunk_   == NextChunk(file, pos, size)
             filtered == FilterCohort(chunk_, patient_synthea_ids)
         IN  LabCodesChunks(file, pos + size, size, patient_synthea_ids,
                 LabCodesRows(DropDuplicates(filtered), 1, unique_labs))

\* extract_lab_codes: the list, and whether the warning was printed
extract_lab_codes(file, patient_synthea_ids, size) ==
    IF ~file.exists THEN [warned |-> TRUE, value |-> <<>>]
    ELSE LET unique_labs == LabCodesChunks(file, 0, size, patient_synthea_ids, <<>>)
         IN  [warned |-> FALSE,
              value  |-> [i \in DOMAIN unique_labs |-> unique_labs[i][2]]]

-----------------------------------------------------------------------------
(* transform.py: the relationship builders                                 *)

\* a loop that ends at the first row of a subject outside the cohort
RECURSIVE BuildPatientConditionsBreak(_, _, _, _)
BuildPatientConditionsBreak(rows, i, mapping, rels) ==
    IF i > Len(rows) \/ rows[i].PATIENT \notin DOMAIN mapping THEN rels
    ELSE BuildPatientConditionsBreak(rows, i + 1, mapping,
             Append(rels, map_patient_condition(mapping[rows[i].PATIENT], rows[i])))

RECURSIVE BuildPatientConditionsLoop(_, _, _, _)
BuildPatientConditionsLoop(rows, i, mapping, rels) ==
    IF i > Len(rows) THEN rels
    ELSE LET synthea_id == rows[i].PATIENT
         IN  BuildPatientConditionsLoop(rows, i + 1, mapping,
                 IF synthea_id \notin DOMAIN mapping THEN rels
                 ELSE Append(rels, map_patient_condition(mapping[synthea_id], rows[i])))

\* a builder that keeps the rows of subjects outside the cohort, under an
\* identifier no subject has: what the skip at line 123 prevents
BuildPatientConditionsUnfiltered(df, mapping) ==
    [ i \in DOMAIN df.rows |->
        map_patient_condition(
            IF df.rows[i].PATIENT \in DOMAIN mapping
            THEN mapping[df.rows[i].PATIENT] ELSE SyntheticId(0),
            df.rows[i]) ]

build_patient_conditions(df, mapping) ==
    BuildPatientConditionsLoop(df.rows, 1, mapping, <<>>)

RECURSIVE BuildPatientMedicationsLoop(_, _, _, _)
BuildPatientMedicationsLoop(rows, i, mapping, rels) ==
    IF i > Len(rows) THEN rels
    ELSE LET synthea_id == rows[i].PATIENT
         IN  BuildPatientMedicationsLoop(rows, i + 1, mapping,
                 IF synthea_id \notin DOMAIN mapping THEN rels
                 ELSE Append(rels, map_patient_medication(mapping[synthea_id], rows[i])))

build_patient_medications(df, mapping) ==
    BuildPatientMedicationsLoop(df.rows, 1, mapping, <<>>)

-----------------------------------------------------------------------------
(* transform.py: build_patient_labs, statement by statement                *)

\* a cap test that lets one record too many through
CapExceeded(rels, max_records) == Len(rels) > max_records

\* len(relationships) >= max_records
CapReached(rels, max_records) == Len(rels) >= max_records

\* whether the chunk iterator has another chunk after pos rows and n chunks:
\* the rows that are left, or, for a file without rows, the one empty frame
\* the first read gives
HasNextChunk(file, pos, n) ==
    pos < Len(file.rows) \/ (Len(file.rows) = 0 /\ n = 0)

\* the body of the inner loop for one row, after the test of the cap
LabsRowBody(rels, row, mapping) ==
    IF row.PATIENT \notin DOMAIN mapping THEN rels
    ELSE Append(rels, map_patient_lab(mapping[row.PATIENT], row))

\* entry of build_patient_labs up to its outer loop
LabsEnter ==
    /\ pc = "build_patient_labs"
    /\ IF ~files["observations.csv"].exists
       THEN /\ warnings' = warnings \cup {"observations.csv"}
            /\ pc' = "labs_return"
       ELSE /\ warnings' = warnings
            /\ pc' = "labs_for"
    /\ relationships' = <<>>
    /\ reader_pos' = 0
    /\ chunks_read' = 0
    /\ chunk' = <<>>
    /\ row_idx' = 0
    /\ UNCHANGED <<inserted, requests,
                   dir_exists, files, patient_limit, lab_limit, chunk_size, hash_seed,
                   out_dirs, written, content, exit_status, patients, id_mapping,
                   condition_codes, medication_codes, lab_codes, patient_conditions,
                   patient_medications, prevalence, arg, result>>

\* the outer for statement takes the next chunk from the iterator, which
\* reads it from the file, and then tests the cap (lines 160-165)
LabsFor ==
    /\ pc = "labs_for"
    /\ LET file == files["observations.csv"]
       IN  IF ~HasNextChunk(file, reader_pos, chunks_read)
           THEN /\ pc' = "labs_return"
                /\ UNCHANGED <<reader_pos, chunks_read, chunk, row_idx>>
           ELSE /\ chunk' = NextChunk(file, reader_pos, chunk_size.labs)
                /\ reader_pos' = Min(reader_pos + chunk_size.labs, Len(file.rows))
                /\ chunks_read' = chunks_read + 1
                /\ row_idx' = 1
                /\ pc' = IF CapReached(relationships, lab_limit)
                         THEN "labs_return" ELSE "labs_row"
    /\ UNCHANGED <<inserted, requests,
                   dir_exists, files, patient_limit, lab_limit, chunk_size, hash_seed,
                   out_dirs, written, content, exit_status, warnings, patients,
                   id_mapping, condition_codes, medication_codes, lab_codes,
                   patient_conditions, patient_medications, relationships,
                   prevalence, arg, result>>

\* one iteration of the inner loop (lines 167-175), or its end and the
\* release of the chunk (lines 177-178)
LabsRow ==
    /\ pc = "labs_row"
    /\ IF row_idx > Len(chunk) \/ CapReached(relationships, lab_limit)
       THEN /\ chunk' = <<>>
            /\ row_idx' = 0
            /\ pc' = "labs_for"
            /\ UNCHANGED relationships
       ELSE /\ relationships' = LabsRowBody(relationships, chunk[row_idx], id_mapping)
            /\ row_idx' = row_idx + 1
            /\ UNCHANGED <<chunk, pc>>
    /\ UNCHANGED <<inserted, requests,
                   dir_exists, files, patient_limit, lab_limit, chunk_size, hash_seed,
                   out_dirs, written, content, exit_status, warnings, patients,
                   id_mapping, condition_codes, medication_codes, lab_codes,
                   patient_conditions, patient_medications, reader_pos, chunks_read,
                   prevalence, arg, result>>

-----------------------------------------------------------------------------
(* The inputs: the files of the input directory and the arguments          *)

\* the bounds of the model: the rows of the subject file when
\* transform_patients is called on its own, the rows of the subject file
\* otherwise, the rows of an event file, the lab cap and the chunk size
MaxPatientRows == 3
MaxCohort == 2
MaxRows == 3
MaxLabLimit == 2
MaxChunk == 2

SourceIds == {"p1", "p2"}
CodeTexts == { <<"1">>, <<"A">> }
Variants  == {1, 2}
Procs     == {1, 2}

FileNames == {"patients.csv", "conditions.csv", "medications.csv", "observations.csv"}

SeqsUpTo(S, n) == UNION { [1..k -> S] : k \in 0..n }

\* a row of patients.csv
PatientText(id, variant) ==
    IF variant = 1
    THEN [ Id        |-> id,
           BIRTHDATE |-> <<"1","9","9","9","-","0","1","-","0","1">>,
           DEATHDATE |-> <<>>,
           GENDER    |-> <<"M">>,
           RACE      |-> <<"w","h","i","t","e">>,
           ETHNICITY |-> <<"n","o","n","h","i","s","p","a","n","i","c">>,
           MARITAL   |-> <<"S">>,
           CITY      |-> <<"B","o","s","t","o","n">>,
           STATE_    |-> <<"M","A">>,
           ZIP       |-> <<"0","2","1","3","9">> ]
    ELSE [ Id        |-> id,
           BIRTHDATE |-> <<"1","9","9","9","-","0","1","-","0","1">>,
           DEATHDATE |-> <<"2","0","2","0","-","0","5","-","0","5">>,
           GENDER    |-> <<"F">>,
           RACE      |-> <<>>,
           ETHNICITY |-> <<"h","i","s","p","a","n","i","c">>,
           MARITAL   |-> <<>>,
           CITY      |-> <<>>,
           STATE_    |-> <<>>,
           ZIP       |-> <<>> ]

DescriptionText(variant) ==
    IF variant = 1
    THEN <<"A","s","t","h","m","a"," ","(","d","i","s","o","r","d","e","r",")">>
    ELSE <<"G","l","u","c","o","s","e">>

\* an event: a subject, a code and one of two descriptions
Events == [PATIENT : SourceIds, CODE : CodeTexts, variant : Variants]

\* the event as a row of conditions.csv or medications.csv
EventText(e) ==
    [ PATIENT     |-> e.PATIENT,
      CODE        |-> e.CODE,
      DESCRIPTION |-> DescriptionText(e.variant),
      START       |-> <<"2","0","2","0","-","0","1","-","0","1">>,
      STOP        |-> IF e.variant = 1 THEN <<>>
                      ELSE <<"2","0","2","1","-","0","1","-","0","1">> ]

\* the event as a row of observations.csv
ObservationText(e) ==
    [ PATIENT     |-> e.PATIENT,
      CODE        |-> e.CODE,
      DESCRIPTION |-> DescriptionText(e.variant),
      DATE        |-> <<"2","0","2","0","-","0","1","-","0","1">>,
      VALUE       |-> IF e.variant = 1 THEN <<"N","e","g","a","t","i","v","e">>
                      ELSE <<"9","8",".","6">>,
      UNITS       |-> IF e.variant = 1 THEN <<>> ELSE <<"m","g","/","d","L">>,
      TYPE        |-> <<"n","u","m","e","r","i","c">> ]

Present(rows) == [exists |-> TRUE, rows |-> rows]
Absent        == [exists |-> FALSE, rows |-> <<>>]

\* an input directory: the subject file and the three event files, which
\* hold the same events
Directory(subjects, events) ==
    [ f \in FileNames |->
        IF f = "patients.csv" THEN subjects
        ELSE IF ~events.exists THEN Absent
        ELSE IF f = "observations.csv"
             THEN Present([i \in DOMAIN events.rows |-> ObservationText(events.rows[i])])
             ELSE Present([i \in DOMAIN events.rows |-> EventText(events.rows[i])]) ]

\* the strings the pipeline hashes, and the values a str hash takes in the
\* model.  Python's str hash is salted per process (PYTHONHASHSEED): a
\* process's hash is some function from strings to integers
HashedStrings == { <<"1">>, <<"A">> }
HashValues    == {-31, -1, 0, 29, 30}
HashFunctions == [HashedStrings -> HashValues]
ZeroHash      == [c \in HashedStrings |-> 0]

\* the state a run starts in: its inputs, and nothing done yet
Inputs(pc0, exists, dir, limit, max_records, sizes, seeds) ==
    /\ pc = pc0
    /\ dir_exists = exists
    /\ files = dir
    /\ patient_limit = limit
    /\ lab_limit = max_records
    /\ chunk_size = sizes
    /\ hash_seed = seeds
    /\ out_dirs = {}
    /\ written = <<>>
    /\ content = EmptyDict
    /\ exit_status = "running"
    /\ warnings = {}
    /\ condition_codes = <<>>
    /\ medication_codes = <<>>
    /\ lab_codes = <<>>
    /\ patient_conditions = <<>>
    /\ patient_medications = <<>>
    /\ relationships = <<>>
    /\ reader_pos = 0
    /\ chunks_read = 0
    /\ chunk = <<>>
    /\ row_idx = 0
    /\ prevalence = EmptyDict
    /\ result = <<>>
    /\ inserted = 0
    /\ requests = <<>>

\* the rows of the subject file as read_csv gives them
SubjectRows == load_synthea_csv(files["patients.csv"], "patients.csv").df.rows

\* no function called on its own below has been given an argument
NoArgument == arg = <<>>

\* before the subjects are transformed
NoCohort ==
    /\ patients = <<>>
    /\ id_mapping = EmptyDict

\* after phase 1 of main: the subjects of the subject file
Cohort ==
    LET df == load_synthea_csv(files["patients.csv"], "patients.csv").df
        r  == transform_patients(df.rows, patient_limit)
    IN  /\ patients = r.patients
        /\ id_mapping = r.id_mapping

\* subject files of up to n rows
PatientFiles(n) ==
    { Present([i \in DOMAIN ids |-> PatientText(ids[i], (i % 2) + 1)]) :
        ids \in SeqsUpTo(SourceIds, n) }

\* event files of up to n rows whose description goes with the code
EventFiles(n) ==
    { Present(es) :
        es \in SeqsUpTo({ e \in Events : (e.variant = 1) = (e.CODE = <<"1">>) }, n) }

\* event files of up to n rows with any description
EventFilesAnyDescription(n) == { Present(es) : es \in SeqsUpTo(Events, n) }

DefaultSizes == [codes |-> MaxChunk, labs |-> 1]
DefaultSeeds == [p \in Procs |-> ZeroHash]

-----------------------------------------------------------------------------
(* transform_patients called on its own                                    *)

InitPatients ==
    \E ids \in SeqsUpTo(SourceIds, MaxPatientRows),
       variants \in [1..MaxPatientRows -> Variants],
       limit \in 0..(MaxPatientRows + 1) :
        /\ Inputs("transform_patients", TRUE,
              Directory(Present([i \in DOMAIN ids |-> PatientText(ids[i], variants[i])]),
                        Absent),
              limit, 0, DefaultSizes, DefaultSeeds)
        /\ NoCohort
        /\ NoArgument

CallTransformPatients ==
    /\ pc = "transform_patients"
    /\ LET df == load_synthea_csv(files["patients.csv"], "patients.csv").df
           r  == transform_patients(df.rows, patient_limit)
       IN  /\ patients' = r.patients
           /\ id_mapping' = r.id_mapping
    /\ pc' = "returned"
    /\ UNCHANGED <<inserted, requests,
                   dir_exists, files, patient_limit, lab_limit, chunk_size, hash_seed,
                   out_dirs, written, content, exit_status, warnings, condition_codes,
                   medication_codes, lab_codes, patient_conditions, patient_medications,
                   relationships, reader_pos, chunks_read, chunk, row_idx, prevalence,
                   arg, result>>

NextPatients == CallTransformPatients

SpecPatients == InitPatients /\ [][NextPatients]_vars

-----------------------------------------------------------------------------
(* The relationship builders called on the cohort of a subject file        *)

InitRel ==
    \E subjects \in PatientFiles(MaxCohort),
       events \in EventFiles(MaxRows),
       limit \in 0..MaxCohort :
        /\ \/ \E fn \in {"build_patient_conditions", "build_patient_medications"} :
                Inputs(fn, TRUE, Directory(subjects, events), limit, 0,
                       DefaultSizes, DefaultSeeds)
           \/ \E max_records \in 0..MaxLabLimit, size \in 1..MaxChunk :
                Inputs("build_patient_labs", TRUE, Directory(subjects, events), limit,
                       max_records, [codes |-> MaxChunk, labs |-> size], DefaultSeeds)
        /\ Cohort
        /\ NoArgument

CallBuildPatientConditions ==
    /\ pc = "build_patient_conditions"
    /\ LET df == load_synthea_csv(files["conditions.csv"], "conditions.csv").df
       IN  patient_conditions' = build_patient_conditions(df, id_mapping)
    /\ pc' = "returned"
    /\ UNCHANGED <<inserted, requests,
                   dir_exists, files, patient_limit, lab_limit, chunk_size, hash_seed,
                   out_dirs, written, content, exit_status, warnings, patients,
                   id_mapping, condition_codes, medication_codes, lab_codes,
                   patient_medications, relationships, reader_pos, chunks_read, chunk,
                   row_idx, prevalence, arg, result>>

CallBuildPatientMedications ==
    /\ pc = "build_patient_medications"
    /\ LET df == load_synthea_csv(files["medications.csv"], "medications.csv").df
       IN  patient_medications' = build_patient_medications(df, id_mapping)
    /\ pc' = "returned"
    /\ UNCHANGED <<inserted, requests,
                   dir_exists, files, patient_limit, lab_limit, chunk_size, hash_seed,
                   out_dirs, written, content, exit_status, warnings, patients,
                   id_mapping, condition_codes, medication_codes, lab_codes,
                   patient_conditions, relationships, reader_pos, chunks_read, chunk,
                   row_idx, prevalence, arg, result>>

NextRel ==
    \/ CallBuildPatientConditions
    \/ CallBuildPatientMedications
    \/ LabsEnter
    \/ LabsFor
    \/ LabsRow

SpecRel == InitRel /\ [][NextRel]_vars

-----------------------------------------------------------------------------
(* map_patient called for the k-th row of the subject file                 *)

\* how far the model looks beyond the first index and around the first
\* index with more digits than the format's width
IndexWindow == 30

Indexes ==
    (1..IndexWindow) \cup ((10^IdWidth - IndexWindow)..(10^IdWidth + IndexWindow))

\* the arguments of map_patient in iteration k of the loop of
\* transform_patients: a row, and index = idx + 1 = k
InitIds ==
    \E index \in Indexes, variant \in Variants :
        /\ Inputs("map_patient", TRUE,
                  Directory(Present(<<PatientText("p1", variant)>>), Absent),
                  10^IdWidth + IndexWindow, 0, DefaultSizes, DefaultSeeds)
        /\ NoCohort
        /\ arg = index

CallMapPatient ==
    /\ pc = "map_patient"
    /\ result' = map_patient(SubjectRows[1], arg)
    /\ pc' = "returned"
    /\ UNCHANGED <<inserted, requests,
                   dir_exists, files, patient_limit, lab_limit, chunk_size, hash_seed,
                   out_dirs, written, content, exit_status, warnings, patients,
                   id_mapping, condition_codes, medication_codes, lab_codes,
                   patient_conditions, patient_medications, relationships, reader_pos,
                   chunks_read, chunk, row_idx, prevalence, arg>>

NextIds == CallMapPatient

SpecIds == InitIds /\ [][NextIds]_vars

-----------------------------------------------------------------------------
(* The prevalence estimate of one code in two processes                    *)

InitPrev ==
    \E seeds \in [Procs -> HashFunctions], code \in CodeTexts :
        /\ Inputs("map_condition_code", TRUE,
                  Directory(Present(<<>>),
                            Present(<<[PATIENT |-> "p1", CODE |-> code, variant |-> 1]>>)),
                  0, 0, DefaultSizes, seeds)
        /\ NoCohort
        /\ NoArgument

\* process p maps the row of the condition file
CallMapConditionCode(p) ==
    /\ pc = "map_condition_code"
    /\ p \notin DOMAIN prevalence
    /\ LET df    == load_synthea_csv(files["conditions.csv"], "conditions.csv").df
           entry == map_condition_code(df.rows[1], hash_seed[p])
       IN  /\ prevalence' = (p :> entry.prevalence) @@ prevalence
           /\ arg' = entry.code
    /\ pc' = IF DOMAIN prevalence' = Procs THEN "returned" ELSE pc
    /\ UNCHANGED <<inserted, requests,
                   dir_exists, files, patient_limit, lab_limit, chunk_size, hash_seed,
                   out_dirs, written, content, exit_status, warnings, patients,
                   id_mapping, condition_codes, medication_codes, lab_codes,
                   patient_conditions, patient_medications, relationships, reader_pos,
                   chunks_read, chunk, row_idx, result>>

NextPrev == \E p \in Procs : CallMapConditionCode(p)

SpecPrev == InitPrev /\ [][NextPrev]_vars

-----------------------------------------------------------------------------
(* The catalog builders called on the cohort of a subject file             *)

InitCatalog ==
    \E subjects \in PatientFiles(MaxCohort),
       events \in EventFilesAnyDescription(MaxRows) \cup {Absent},
       limit \in 0..MaxCohort :
        /\ \/ \E fn \in {"extract_condition_codes", "extract_medication_codes"} :
                Inputs(fn, TRUE, Directory(subjects, events), limit, 0,
                       DefaultSizes, DefaultSeeds)
           \/ \E size \in 1..MaxChunk :
                Inputs("extract_lab_codes", TRUE, Directory(subjects, events), limit,
                       0, [codes |-> size, labs |-> 1], DefaultSeeds)
        /\ Cohort
        /\ NoArgument

CallExtractConditionCodes ==
    /\ pc = "extract_condition_codes"
    /\ LET loaded == load_synthea_csv(files["conditions.csv"], "conditions.csv")
           r      == extract_condition_codes(loaded.df, DOMAIN id_mapping, hash_seed[1])
       IN  /\ warnings' = IF loaded.warned THEN warnings \cup {"conditions.csv"}
                          ELSE warnings
           /\ condition_codes' = r.value
           /\ pc' = IF r.raised # "" THEN r.raised ELSE "returned"
    /\ UNCHANGED <<inserted, requests,
                   dir_exists, files, patient_limit, lab_limit, chunk_size, hash_seed,
                   out_dirs, written, content, exit_status, patients, id_mapping,
                   medication_codes, lab_codes, patient_conditions, patient_medications,
                   relationships, reader_pos, chunks_read, chunk, row_idx, prevalence,
                   arg, result>>

CallExtractMedicationCodes ==
    /\ pc = "extract_medication_codes"
    /\ LET loaded == load_synthea_csv(files["medications.csv"], "medications.csv")
           r      == extract_medication_codes(loaded.df, DOMAIN id_mapping)
       IN  /\ warnings' = IF loaded.warned THEN warnings \cup {"medications.csv"}
                          ELSE warnings
           /\ medication_codes' = r.value
           /\ pc' = IF r.raised # "" THEN r.raised ELSE "returned"
    /\ UNCHANGED <<inserted, requests,
                   dir_exists, files, patient_limit, lab_limit, chunk_size, hash_seed,
                   out_dirs, written, content, exit_status, patients, id_mapping,
                   condition_codes, lab_codes, patient_conditions, patient_medications,
                   relationships, reader_pos, chunks_read, chunk, row_idx, prevalence,
                   arg, result>>

CallExtractLabCodes ==
    /\ pc = "extract_lab_codes"
    /\ LET r == extract_lab_codes(files["observations.csv"], DOMAIN id_mapping,
                                  chunk_size.codes)
       IN  /\ warnings' = IF r.warned THEN warnings \cup {"observations.csv"}
                          ELSE warnings
           /\ lab_codes' = r.value
    /\ pc' = "returned"
    /\ UNCHANGED <<inserted, requests,
                   dir_exists, files, patient_limit, lab_limit, chunk_size, hash_seed,
                   out_dirs, written, content, exit_status, patients, id_mapping,
                   condition_codes, medication_codes, patient_conditions,
                   patient_medications, relationships, reader_pos, chunks_read, chunk,
                   row_idx, prevalence, arg, result>>

NextCatalog ==
    \/ CallExtractConditionCodes
    \/ CallExtractMedicationCodes
    \/ CallExtractLabCodes

SpecCatalog == InitCatalog /\ [][NextCatalog]_vars

-----------------------------------------------------------------------------
(* The categorisation functions called on a description                    *)

\* the words of a description in the model, and how many a description has
MaxWords == 2

Vocabulary ==
    { <<"E","s","s","e","n","t","i","a","l">>,
      <<"h","y","p","e","r","t","e","n","s","i","o","n">>,
      <<"D","I","A","B","E","T","E","S">>,
      <<"P","n","e","u","m","o","n","i","a">>,
      <<"s","t","r","e","s","s">>,
      <<"f","r","a","c","t","u","r","e">>,
      <<"(","f","i","n","d","i","n","g",")">>,
      <<"x","y","z">>,
      <<"L","i","s","i","n","o","p","r","i","l">>,
      <<"i","n","s","u","l","i","n">>,
      <<"G","l","u","c","o","s","e">>,
      <<"u","r","i","n","e">> }

\* " ".join(words)
RECURSIVE Join(_)
Join(words) ==
    IF words = <<>> THEN <<>>
    ELSE IF Len(words) = 1 THEN words[1]
    ELSE words[1] \o <<" ">> \o Join(Tail(words))

\* the descriptions of the model: the empty one, and words joined by spaces
Descriptions == { Join(ws) : ws \in SeqsUpTo(Vocabulary, MaxWords) }

InitCategorize ==
    \E description \in Descriptions :
        /\ Inputs("categorize", TRUE, Directory(Present(<<>>), Absent),
                  0, 0, DefaultSizes, DefaultSeeds)
        /\ NoCohort
        /\ arg = description

\* the return of one of the functions, called with arg
Returns(fn, value) ==
    /\ result' = [fn |-> fn, value |-> value]
    /\ pc' = "returned"
    /\ UNCHANGED <<inserted, requests,
                   dir_exists, files, patient_limit, lab_limit, chunk_size, hash_seed,
                   out_dirs, written, content, exit_status, warnings, patients,
                   id_mapping, condition_codes, medication_codes, lab_codes,
                   patient_conditions, patient_medications, relationships, reader_pos,
                   chunks_read, chunk, row_idx, prevalence, arg>>

CallCategorizeCondition ==
    /\ pc = "categorize"
    /\ Returns("_categorize_condition", _categorize_condition(arg))

CallCategorizeDrug ==
    /\ pc = "categorize"
    /\ Returns("_categorize_drug", _categorize_drug(arg))

CallCategorizeLab ==
    /\ pc = "categorize"
    /\ Returns("_categorize_lab", _categorize_lab(arg))

NextCategorize ==
    \/ CallCategorizeCondition
    \/ CallCategorizeDrug
    \/ CallCategorizeLab

SpecCategorize == InitCategorize /\ [][NextCategorize]_vars

-----------------------------------------------------------------------------
(* map_patient_lab called on a row of a chunk of the observation file      *)

\* the rows of the chunk
MaxValueRows == 2

\* n copies of the character c
Repeat(c, n) == [i \in 1..n |-> c]

\* the VALUE texts of the model: missing, numbers, words, and a number and a
\* word of more than 100 characters
ValueTexts ==
    { <<>>,
      <<"7">>,
      <<"9","8",".","6">>,
      <<"1",".","5","0">>,
      <<"N","e","g","a","t","i","v","e">>,
      <<"1","2"," ","m","g">>,
      Repeat("0", 100) \o <<"7">>,
      Repeat("x", 101) }

InitLabValue ==
    \E values \in SeqsUpTo(ValueTexts, MaxValueRows) \ {<<>>} :
        \E index \in DOMAIN values :
            /\ Inputs("map_patient_lab", TRUE,
                      [ f \in FileNames |->
                          IF f = "observations.csv"
                          THEN Present([i \in DOMAIN values |->
                                   [ObservationText([PATIENT |-> "p1", CODE |-> <<"1">>,
                                                     variant |-> 2])
                                       EXCEPT !.VALUE = values[i]]])
                          ELSE Absent ],
                      0, MaxValueRows, [codes |-> MaxValueRows, labs |-> MaxValueRows],
                      DefaultSeeds)
            /\ NoCohort
            /\ arg = index

\* build_patient_labs maps row arg of the chunk it has read
CallMapPatientLab ==
    /\ pc = "map_patient_lab"
    /\ LET chunk_ == NextChunk(files["observations.csv"], 0, chunk_size.labs)
       IN  result' = map_patient_lab(SyntheticId(1), chunk_[arg])
    /\ pc' = "returned"
    /\ UNCHANGED <<inserted, requests,
                   dir_exists, files, patient_limit, lab_limit, chunk_size, hash_seed,
                   out_dirs, written, content, exit_status, warnings, patients,
                   id_mapping, condition_codes, medication_codes, lab_codes,
                   patient_conditions, patient_medications, relationships, reader_pos,
                   chunks_read, chunk, row_idx, prevalence, arg>>

NextLabValue == CallMapPatientLab

SpecLabValue == InitLabValue /\ [][NextLabValue]_vars

-----------------------------------------------------------------------------
(* map_lab_code called on a row of the observation file                    *)

LabVocabulary ==
    { <<"G","l","u","c","o","s","e">>,
      <<"H","e","m","o","g","l","o","b","i","n"," ","A","1","c">>,
      <<"H","E","M","O","G","L","O","B","I","N">>,
      <<"C","h","o","l","e","s","t","e","r","o","l">>,
      <<"L","D","L">>,
      <<"P","o","t","a","s","s","i","u","m">>,
      <<"P","l","a","t","e","l","e","t">>,
      <<"x","y","z">> }

\* the UNITS texts of the model; the empty one is a missing unit
UnitTexts ==
    { <<>>,
      <<"m","g","/","d","L">>,
      <<"g","/","d","L">>,
      <<"m","m","o","l","/","L">>,
      <<"%">> }

InitRange ==
    \E ws \in SeqsUpTo(LabVocabulary, MaxWords), unit \in UnitTexts :
        /\ Inputs("map_lab_code", TRUE,
                  [ f \in FileNames |->
                      IF f = "observations.csv"
                      THEN Present(<<[ObservationText([PATIENT |-> "p1", CODE |-> <<"1">>,
                                                       variant |-> 2])
                                         EXCEPT !.DESCRIPTION = Join(ws),
                                                !.UNITS = unit]>>)
                      ELSE Absent ],
                  0, 0, DefaultSizes, DefaultSeeds)
        /\ NoCohort
        /\ arg = 1

\* extract_lab_codes maps row arg of the chunk it has read
CallMapLabCode ==
    /\ pc = "map_lab_code"
    /\ LET chunk_ == NextChunk(files["observations.csv"], 0, chunk_size.codes)
       IN  result' = map_lab_code(chunk_[arg])
    /\ pc' = "returned"
    /\ UNCHANGED <<inserted, requests,
                   dir_exists, files, patient_limit, lab_limit, chunk_size, hash_seed,
                   out_dirs, written, content, exit_status, warnings, patients,
                   id_mapping, condition_codes, medication_codes, lab_codes,
                   patient_conditions, patient_medications, relationships, reader_pos,
                   chunks_read, chunk, row_idx, prevalence, arg>>

NextRange == CallMapLabCode

SpecRange == InitRange /\ [][NextRange]_vars

-----------------------------------------------------------------------------
(* _extract_generic_name called on a medication description                *)

DrugTokens ==
    { <<"I","n","s","u","l","i","n">>,
      <<"H","u","m","a","n",",">>,
      <<"N","D","A","0","2","0","5","0","3">>,
      <<"A","m","o","x","i","c","i","l","l","i","n","/","C","l","a","v","u","l","a","n","a","t","e">>,
      <<"2","5","0">>,
      <<"M","G">>,
      <<"a","s","p","i","r","i","n">>,
      <<"0",".","5","m","g">> }

\* medication descriptions: tokens joined by one space, and a blank one
DrugDescriptions ==
    { Join(ws) : ws \in SeqsUpTo(DrugTokens, MaxWords) } \cup { <<" ">> }

InitGeneric ==
    \E description \in DrugDescriptions :
        /\ Inputs("_extract_generic_name", TRUE, Directory(Present(<<>>), Absent),
                  0, 0, DefaultSizes, DefaultSeeds)
        /\ NoCohort
        /\ arg = description

CallExtractGenericName ==
    /\ pc = "_extract_generic_name"
    /\ Returns("_extract_generic_name", _extract_generic_name(arg))

NextGeneric == CallExtractGenericName

SpecGeneric == InitGeneric /\ [][NextGeneric]_vars

-----------------------------------------------------------------------------
(* map_condition_code called on a row of the condition file                *)

\* condition descriptions: those of the categorisation, one with a suffix
\* text inside it, one in blanks, and ones about the cap of the name
ConditionTexts ==
    Descriptions \cup
    { <<"S","t","r","e","s","s"," ","(","f","i","n","d","i","n","g",")"," ","f","r","a","c","t","u","r","e">>,
      <<" ","C","o","u","g","h"," ">>,
      Repeat("x", 200),
      Repeat("x", 201),
      Repeat("x", 195) \o <<" ","(","d","i","s","o","r","d","e","r",")">> }

InitName ==
    \E description \in ConditionTexts :
        /\ Inputs("clean_name", TRUE,
                  [ f \in FileNames |->
                      IF f = "conditions.csv"
                      THEN Present(<<[EventText([PATIENT |-> "p1", CODE |-> <<"1">>,
                                                 variant |-> 1])
                                         EXCEPT !.DESCRIPTION = description]>>)
                      ELSE Absent ],
                  0, 0, DefaultSizes, DefaultSeeds)
        /\ NoCohort
        /\ arg = 1

\* extract_condition_codes maps row arg of the frame it has loaded
CallMapConditionCodeOfRow ==
    /\ pc = "clean_name"
    /\ LET df == load_synthea_csv(files["conditions.csv"], "conditions.csv").df
       IN  Returns("map_condition_code", map_condition_code(df.rows[arg], hash_seed[1]))

NextName == CallMapConditionCodeOfRow

SpecName == InitName /\ [][NextName]_vars

-----------------------------------------------------------------------------
(* import_to_supabase.py: batch_insert, batch by batch.  arg holds the      *)
(* records and batch_size, row_idx is the loop's i                          *)

MaxRecords == 5
MaxBatch   == 3

InitBatch ==
    \E total \in 0..MaxRecords, batch_size \in 1..MaxBatch :
        /\ Inputs("batch_insert", TRUE, Directory(Present(<<>>), Absent),
                  0, 0, DefaultSizes, DefaultSeeds)
        /\ NoCohort
        /\ arg = [records |-> [r \in 1..total |-> r], batch_size |-> batch_size]

\* records[i:i + batch_size]
Batch(records, i, batch_size) ==
    SubSeq(records, i + 1, Min(i + batch_size, Len(records)))

\* a count that grows with every batch, inserted or not
InsertedAlways(count, batch, ok) == count + Len(batch)

\* inserted += len(batch) follows execute() in the try block
Inserted(count, batch, ok) == IF ok THEN count + Len(batch) ELSE count

\* one turn of the loop; ok: execute() returns, else it raises an Exception
BatchInsertTurn(ok) ==
    /\ pc = "batch_insert"
    /\ row_idx < Len(arg.records)
    /\ LET batch == Batch(arg.records, row_idx, arg.batch_size)
       IN  /\ requests' = Append(requests, [batch |-> batch, ok |-> ok])
           /\ inserted' = Inserted(inserted, batch, ok)
    /\ row_idx' = row_idx + arg.batch_size
    /\ UNCHANGED <<pc, result>>
    /\ UNCHANGED <<dir_exists, files, patient_limit, lab_limit, chunk_size, hash_seed,
                   out_dirs, written, content, exit_status, warnings, patients,
                   id_mapping, condition_codes, medication_codes, lab_codes,
                   patient_conditions, patient_medications, relationships, reader_pos,
                   chunks_read, chunk, prevalence, arg>>

InsertExecutes == BatchInsertTurn(TRUE)

\* the exception is caught and printed, the loop goes on
InsertRaises == BatchInsertTurn(FALSE)

\* range(0, total, batch_size) is exhausted
BatchInsertReturn ==
    /\ pc = "batch_insert"
    /\ row_idx >= Len(arg.records)
    /\ result' = inserted
    /\ pc' = "returned"
    /\ UNCHANGED <<inserted, requests, row_idx>>
    /\ UNCHANGED <<dir_exists, files, patient_limit, lab_limit, chunk_size, hash_seed,
                   out_dirs, written, content, exit_status, warnings, patients,
                   id_mapping, condition_codes, medication_codes, lab_codes,
                   patient_conditions, patient_medications, relationships, reader_pos,
                   chunks_read, chunk, prevalence, arg>>

NextBatch == InsertExecutes \/ InsertRaises \/ BatchInsertReturn

SpecBatch == InitBatch /\ [][NextBatch]_vars

-----------------------------------------------------------------------------
(* validate_data.py.  arg is the data directory: file name -> [exists,      *)
(* records]; every record holds the fields the pipeline writes, so the      *)
(* subscripts r["code"] and r["synthetic_id"] never fail                    *)

MaxFileRecords == 2

\* validate_schema: the records, of the first 100, that lack a required field
validate_schema(records, required) ==
    [i \in { j \in 1..Min(Len(records), 100) : ~(required \subseteq DOMAIN records[j]) }
        |-> required \ DOMAIN records[i]]

\* {r[field] for r in records}
FieldSet(records, field) == { records[i][field] : i \in DOMAIN records }

NotFound == [valid |-> FALSE, errors |-> {"File not found"}, codes |-> {}]

Validated(errors, codes) == [valid |-> errors = {}, errors |-> errors, codes |-> codes]

SchemaErrors(records, required) ==
    IF DOMAIN validate_schema(records, required) = {} THEN {} ELSE {"Missing fields"}

DuplicateErrors(records, codes) ==
    IF Cardinality(codes) # Len(records) THEN {"Duplicate codes found"} ELSE {}

validate_condition_codes(data_dir) ==
    LET file == data_dir["condition_codes.json"]
        codes == FieldSet(file.records, "code")
    IN  IF ~file.exists THEN NotFound
        ELSE Validated(SchemaErrors(file.records, {"code", "name", "category"})
                           \cup DuplicateErrors(file.records, codes),
                       codes)

validate_medication_codes(data_dir) ==
    LET file == data_dir["medication_codes.json"]
        codes == FieldSet(file.records, "code")
    IN  IF ~file.exists THEN NotFound
        ELSE Validated(SchemaErrors(file.records, {"code", "name", "drugClass"})
                           \cup DuplicateErrors(file.records, codes),
                       codes)

validate_lab_codes(data_dir) ==
    LET file == data_dir["lab_codes.json"]
        codes == FieldSet(file.records, "code")
    IN  IF ~file.exists THEN NotFound
        ELSE Validated(SchemaErrors(file.records, {"code", "name", "category"}), codes)

validate_patients(data_dir) ==
    LET file == data_dir["patients.json"]
        ids  == FieldSet(file.records, "synthetic_id")
        sex  == IF \E i \in 1..Min(Len(file.records), 100) :
                        "sex" \notin DOMAIN file.records[i]
                        \/ file.records[i].sex \notin {"male", "female"}
                THEN {"Invalid sex value"} ELSE {}
    IN  IF ~file.exists THEN NotFound
        ELSE Validated(SchemaErrors(file.records, {"synthetic_id", "birth_date", "sex"})
                           \cup sex \cup DuplicateErrors(file.records, ids),
                       ids)

\* validate_patient_conditions, validate_patient_medications and
\* validate_patient_labs: the schema, and the subjects of the first 1000
\* records; orphan codes are counted and not reported
validate_relationships(data_dir, filename, code_field, valid_patients) ==
    LET file == data_dir[filename]
        orphans == IF \E i \in 1..Min(Len(file.records), 1000) :
                          "patient_synthetic_id" \notin DOMAIN file.records[i]
                          \/ file.records[i].patient_synthetic_id \notin valid_patients
                   THEN {"invalid patient_synthetic_id"} ELSE {}
    IN  IF ~file.exists THEN NotFound
        ELSE Validated(SchemaErrors(file.records, {"patient_synthetic_id", code_field})
                           \cup orphans,
                       {})

CatalogRecords(field, third) ==
    { [c \in {field, "name", third} |-> IF c = field THEN code ELSE "x"] :
        code \in {"1", "2"} }

SubjectRecords ==
    { [synthetic_id |-> id, birth_date |-> "2000-01-01", sex |-> "male"] :
        id \in {"SYN-00001", "SYN-00002"} }

DataFiles(records) ==
    { [exists |-> FALSE, records |-> <<>>] } \cup
    { [exists |-> TRUE, records |-> rs] : rs \in SeqsUpTo(records, MaxFileRecords) }

InitValidate ==
    \E conditions \in DataFiles(CatalogRecords("code", "category")),
       medications \in DataFiles(CatalogRecords("code", "drugClass")),
       labs \in DataFiles(CatalogRecords("code", "category")),
       subjects \in DataFiles(SubjectRecords) :
        /\ Inputs("validate", TRUE, Directory(Present(<<>>), Absent),
                  0, 0, DefaultSizes, DefaultSeeds)
        /\ NoCohort
        /\ arg = [ f \in {"condition_codes.json", "medication_codes.json",
                          "lab_codes.json", "patients.json", "patient_conditions.json",
                          "patient_medications.json", "patient_labs.json"} |->
                     CASE f = "condition_codes.json"  -> conditions
                       [] f = "medication_codes.json" -> medications
                       [] f = "lab_codes.json"        -> labs
                       [] f = "patients.json"         -> subjects
                       [] OTHER -> [exists |-> TRUE, records |-> <<>>] ]

\* main of validate_data.py: the seven validations and sys.exit
ValidateMain ==
    /\ pc = "validate"
    /\ LET subjects == validate_patients(arg)
           valid ==
               [ f \in DOMAIN arg |->
                   CASE f = "condition_codes.json"  -> validate_condition_codes(arg).valid
                     [] f = "medication_codes.json" -> validate_medication_codes(arg).valid
                     [] f = "lab_codes.json"        -> validate_lab_codes(arg).valid
                     [] f = "patients.json"         -> subjects.valid
                     [] f = "patient_conditions.json" ->
                            validate_relationships(arg, f, "condition_code",
                                                   subjects.codes).valid
                     [] f = "patient_medications.json" ->
                            validate_relationships(arg, f, "medication_code",
                                                   subjects.codes).valid
                     [] f = "patient_labs.json" ->
                            validate_relationships(arg, f, "lab_code",
                                                   subjects.codes).valid ]
           all_valid == \A f \in DOMAIN arg : valid[f]
       IN  /\ result' = valid
           /\ exit_status' = IF all_valid THEN "0" ELSE "1"
    /\ pc' = "exited"
    /\ UNCHANGED <<inserted, requests,
                   dir_exists, files, patient_limit, lab_limit, chunk_size, hash_seed,
                   out_dirs, written, content, warnings, patients, id_mapping,
                   condition_codes, medication_codes, lab_codes, patient_conditions,
                   patient_medications, relationships, reader_pos, chunks_read, chunk,
                   row_idx, prevalence, arg>>

NextValidate == ValidateMain

SpecValidate == InitValidate /\ [][NextValidate]_vars

-----------------------------------------------------------------------------
(* extract_lab_codes called on one observation file with several chunk     *)
(* sizes; result holds the catalog of every size tried                      *)

\* the CODE texts of the observations: a number, the same number written
\* with a leading zero, and a text
LabCodeTexts == CodeTexts \cup { <<"0","1">> }

ChunkSizes == 1..(MaxChunk + 1)

InitChunking ==
    \E events \in SeqsUpTo([PATIENT : SourceIds, CODE : LabCodeTexts, variant : Variants],
                           MaxRows) :
        /\ Inputs("extract_lab_codes", TRUE,
                  [ f \in FileNames |->
                      IF f = "patients.csv" THEN Present(<<PatientText("p1", 1)>>)
                      ELSE IF f = "observations.csv"
                           THEN Present([i \in DOMAIN events |-> ObservationText(events[i])])
                           ELSE Absent ],
                  1, 0, DefaultSizes, DefaultSeeds)
        /\ Cohort
        /\ NoArgument

CallExtractLabCodesOfSize(size) ==
    /\ pc = "extract_lab_codes"
    /\ size \notin DOMAIN result
    /\ result' = (size :> extract_lab_codes(files["observations.csv"], DOMAIN id_mapping,
                                            size).value) @@ result
    /\ pc' = IF DOMAIN result' = ChunkSizes THEN "returned" ELSE pc
    /\ UNCHANGED <<inserted, requests,
                   dir_exists, files, patient_limit, lab_limit, chunk_size, hash_seed,
                   out_dirs, written, content, exit_status, warnings, patients,
                   id_mapping, condition_codes, medication_codes, lab_codes,
                   patient_conditions, patient_medications, relationships, reader_pos,
                   chunks_read, chunk, row_idx, prevalence, arg>>

NextChunking == \E size \in ChunkSizes : CallExtractLabCodesOfSize(size)

SpecChunking == InitChunking /\ [][NextChunking]_vars

-----------------------------------------------------------------------------
(* build_patient_labs called on observations with numeric and text values  *)

\* the VALUE texts: two numbers, one of them with a trailing zero, and a text
LabValueTexts ==
    { <<"1",".","5","0">>, <<"9","8",".","6">>, <<"N","e","g","a","t","i","v","e">> }

InitLabs ==
    \E rows \in SeqsUpTo([PATIENT : SourceIds, VALUE : LabValueTexts], MaxRows),
       max_records \in 0..MaxLabLimit,
       size \in 1..MaxChunk :
        /\ Inputs("build_patient_labs", TRUE,
                  [ f \in FileNames |->
                      IF f = "patients.csv" THEN Present(<<PatientText("p1", 1)>>)
                      ELSE IF f = "observations.csv"
                           THEN Present([i \in DOMAIN rows |->
                                    [ObservationText([PATIENT |-> rows[i].PATIENT,
                                                      CODE |-> <<"A">>, variant |-> 2])
                                        EXCEPT !.VALUE = rows[i].VALUE]])
                           ELSE Absent ],
                  1, max_records, [codes |-> MaxChunk, labs |-> size], DefaultSeeds)
        /\ Cohort
        /\ NoArgument

NextLabs == LabsEnter \/ LabsFor \/ LabsRow

SpecLabs == InitLabs /\ [][NextLabs]_vars

-----------------------------------------------------------------------------
(* transform.py: main, phase by phase                                      *)

\* the rows of an event file when the whole pipeline runs
MaxMainRows == 2

OptionalFiles == {"conditions.csv", "medications.csv", "observations.csv"}

\* a phase 8 that does not save the lab relationships
SaveOrderWithoutLabs ==
    << "static/condition_codes.json", "static/medication_codes.json",
       "static/lab_codes.json", "supabase/patients.json",
       "supabase/patient_conditions.json", "supabase/patient_medications.json" >>

\* the files main writes, in the order of phase 8 (lines 308-328)
SaveOrder ==
    << "static/condition_codes.json", "static/medication_codes.json",
       "static/lab_codes.json", "supabase/patients.json",
       "supabase/patient_conditions.json", "supabase/patient_medications.json",
       "supabase/patient_labs.json" >>

\* the chunk sizes of a run of main, which passes none: the default of
\* extract_lab_codes (50000, line 94) and the default of build_patient_labs
\* (25000, line 148), half as large
MainSizes == [codes |-> MaxChunk, labs |-> MaxChunk \div 2]

InitMain ==
    \E exists \in BOOLEAN,
       subjects \in PatientFiles(MaxCohort) \cup {Absent},
       events \in EventFiles(MaxMainRows),
       absent \in {{}} \cup { {f} : f \in OptionalFiles },
       limit \in 0..MaxCohort,
       max_records \in 0..MaxLabLimit :
        /\ Inputs("main", exists,
                  [ f \in FileNames |->
                      IF f \in absent THEN Absent
                      ELSE Directory(subjects, events)[f] ],
                  limit, max_records, MainSizes, DefaultSeeds)
        /\ NoCohort
        /\ NoArgument

\* lines 223-232: the input directory is validated, then the two output
\* directories are created
MainEnter ==
    /\ pc = "main"
    /\ IF ~dir_exists
       THEN /\ exit_status' = "1"
            /\ pc' = "exited"
            /\ UNCHANGED out_dirs
       ELSE /\ out_dirs' = {"static", "supabase"}
            /\ pc' = "phase1"
            /\ UNCHANGED exit_status
    /\ UNCHANGED <<inserted, requests,
                   dir_exists, files, patient_limit, lab_limit, chunk_size, hash_seed,
                   written, content, warnings, patients, id_mapping, condition_codes,
                   medication_codes, lab_codes, patient_conditions, patient_medications,
                   relationships, reader_pos, chunks_read, chunk, row_idx, prevalence,
                   arg, result>>

\* lines 245-258: phase 1
Phase1 ==
    /\ pc = "phase1"
    /\ LET loaded == load_synthea_csv(files["patients.csv"], "patients.csv")
           r      == transform_patients(loaded.df.rows, patient_limit)
       IN  /\ warnings' = IF loaded.warned THEN warnings \cup {"patients.csv"}
                          ELSE warnings
           /\ IF Empty(loaded.df)
              THEN /\ exit_status' = "1"
                   /\ pc' = "exited"
                   /\ UNCHANGED <<patients, id_mapping>>
              ELSE /\ patients' = r.patients
                   /\ id_mapping' = r.id_mapping
                   /\ pc' = "phase2"
                   /\ UNCHANGED exit_status
    /\ UNCHANGED <<inserted, requests,
                   dir_exists, files, patient_limit, lab_limit, chunk_size, hash_seed,
                   out_dirs, written, content, condition_codes, medication_codes,
                   lab_codes, patient_conditions, patient_medications, relationships,
                   reader_pos, chunks_read, chunk, row_idx, prevalence, arg, result>>

\* lines 260-265: phase 2; an exception of extract_condition_codes is not
\* caught, and ends the process with a traceback and status 1
Phase2 ==
    /\ pc = "phase2"
    /\ LET loaded == load_synthea_csv(files["conditions.csv"], "conditions.csv")
           r      == extract_condition_codes(loaded.df, DOMAIN id_mapping, hash_seed[1])
       IN  /\ warnings' = IF loaded.warned THEN warnings \cup {"conditions.csv"}
                          ELSE warnings
           /\ condition_codes' = r.value
           /\ pc' = IF r.raised # "" THEN r.raised ELSE "phase3"
           /\ exit_status' = IF r.raised # "" THEN "1" ELSE exit_status
    /\ UNCHANGED <<inserted, requests,
                   dir_exists, files, patient_limit, lab_limit, chunk_size, hash_seed,
                   out_dirs, written, content, patients, id_mapping, medication_codes,
                   lab_codes, patient_conditions, patient_medications, relationships,
                   reader_pos, chunks_read, chunk, row_idx, prevalence, arg, result>>

\* lines 267-272: phase 3
Phase3 ==
    /\ pc = "phase3"
    /\ LET loaded == load_synthea_csv(files["medications.csv"], "medications.csv")
           r      == extract_medication_codes(loaded.df, DOMAIN id_mapping)
       IN  /\ warnings' = IF loaded.warned THEN warnings \cup {"medications.csv"}
                          ELSE warnings
           /\ medication_codes' = r.value
           /\ pc' = IF r.raised # "" THEN r.raised ELSE "phase4"
           /\ exit_status' = IF r.raised # "" THEN "1" ELSE exit_status
    /\ UNCHANGED <<inserted, requests,
                   dir_exists, files, patient_limit, lab_limit, chunk_size, hash_seed,
                   out_dirs, written, content, patients, id_mapping, condition_codes,
                   lab_codes, patient_conditions, patient_medications, relationships,
                   reader_pos, chunks_read, chunk, row_idx, prevalence, arg, result>>

\* lines 274-278: phase 4
Phase4 ==
    /\ pc = "phase4"
    /\ LET r == extract_lab_codes(files["observations.csv"], DOMAIN id_mapping,
                                  chunk_size.codes)
       IN  /\ warnings' = IF r.warned THEN warnings \cup {"observations.csv"}
                          ELSE warnings
           /\ lab_codes' = r.value
    /\ pc' = "phase5"
    /\ UNCHANGED <<inserted, requests,
                   dir_exists, files, patient_limit, lab_limit, chunk_size, hash_seed,
                   out_dirs, written, content, exit_status, patients, id_mapping,
                   condition_codes, medication_codes, patient_conditions,
                   patient_medications, relationships, reader_pos, chunks_read, chunk,
                   row_idx, prevalence, arg, result>>

\* lines 280-287: phase 5
Phase5 ==
    /\ pc = "phase5"
    /\ LET loaded == load_synthea_csv(files["conditions.csv"], "conditions.csv")
       IN  /\ warnings' = IF loaded.warned THEN warnings \cup {"conditions.csv"}
                          ELSE warnings
           /\ patient_conditions' = build_patient_conditions(loaded.df, id_mapping)
    /\ pc' = "phase6"
    /\ UNCHANGED <<inserted, requests,
                   dir_exists, files, patient_limit, lab_limit, chunk_size, hash_seed,
                   out_dirs, written, content, exit_status, patients, id_mapping,
                   condition_codes, medication_codes, lab_codes, patient_medications,
                   relationships, reader_pos, chunks_read, chunk, row_idx, prevalence,
                   arg, result>>

\* lines 289-296: phase 6; phase 7 is the call of build_patient_labs
Phase6 ==
    /\ pc = "phase6"
    /\ LET loaded == load_synthea_csv(files["medications.csv"], "medications.csv")
       IN  /\ warnings' = IF loaded.warned THEN warnings \cup {"medications.csv"}
                          ELSE warnings
           /\ patient_medications' = build_patient_medications(loaded.df, id_mapping)
    /\ pc' = "build_patient_labs"
    /\ UNCHANGED <<inserted, requests,
                   dir_exists, files, patient_limit, lab_limit, chunk_size, hash_seed,
                   out_dirs, written, content, exit_status, patients, id_mapping,
                   condition_codes, medication_codes, lab_codes, patient_conditions,
                   relationships, reader_pos, chunks_read, chunk, row_idx, prevalence,
                   arg, result>>

\* the data save_json is given for a file
SavedData(file) ==
    CASE file = "static/condition_codes.json"        -> condition_codes
      [] file = "static/medication_codes.json"       -> medication_codes
      [] file = "static/lab_codes.json"              -> lab_codes
      [] file = "supabase/patients.json"             -> patients
      [] file = "supabase/patient_conditions.json"   -> patient_conditions
      [] file = "supabase/patient_medications.json"  -> patient_medications
      [] file = "supabase/patient_labs.json"         -> relationships

\* lines 298-302 and 308-328: build_patient_labs has returned (in a run of
\* main), or a file has been saved: save_json writes the next file
Save ==
    /\ pc \in {"labs_return", "phase8"}
    /\ Len(written) < Len(SaveOrder)
    /\ LET file == SaveOrder[Len(written) + 1]
       IN  /\ written' = Append(written, file)
           /\ content' = (file :> SavedData(file)) @@ content
    /\ pc' = "phase8"
    /\ UNCHANGED <<inserted, requests,
                   dir_exists, files, patient_limit, lab_limit, chunk_size, hash_seed,
                   out_dirs, exit_status, warnings, patients, id_mapping,
                   condition_codes, medication_codes, lab_codes, patient_conditions,
                   patient_medications, relationships, reader_pos, chunks_read, chunk,
                   row_idx, prevalence, arg, result>>

\* stats, the statistics of the manifest
Stats ==
    [ patients            |-> Len(patients),
      condition_codes     |-> Len(condition_codes),
      medication_codes    |-> Len(medication_codes),
      lab_codes           |-> Len(lab_codes),
      patient_conditions  |-> Len(patient_conditions),
      patient_medications |-> Len(patient_medications),
      patient_labs        |-> Len(relationships) ]

\* line 331 and generate_manifest: the manifest is written, and main returns
Manifest ==
    /\ pc = "phase8"
    /\ Len(written) = Len(SaveOrder)
    /\ written' = Append(written, "manifest.json")
    /\ content' = ("manifest.json" :> Stats) @@ content
    /\ exit_status' = "0"
    /\ pc' = "returned"
    /\ UNCHANGED <<inserted, requests,
                   dir_exists, files, patient_limit, lab_limit, chunk_size, hash_seed,
                   out_dirs, warnings, patients, id_mapping, condition_codes,
                   medication_codes, lab_codes, patient_conditions, patient_medications,
                   relationships, reader_pos, chunks_read, chunk, row_idx, prevalence,
                   arg, result>>

Next ==
    \/ MainEnter
    \/ Phase1
    \/ Phase2
    \/ Phase3
    \/ Phase4
    \/ Phase5
    \/ Phase6
    \/ LabsEnter
    \/ LabsFor
    \/ LabsRow
    \/ Save
    \/ Manifest

Init == InitMain

Spec == Init /\ [][Next]_vars

-----------------------------------------------------------------------------
(* main run on observations whose codes are numbers and texts              *)

\* the code an event has in conditions.csv and medications.csv
PlainCode(code) == IF code \in CodeTexts THEN code ELSE <<"1">>

InitCodes ==
    \E events \in SeqsUpTo([PATIENT : SourceIds, CODE : LabCodeTexts, variant : {2}],
                           MaxRows),
       max_records \in 0..MaxLabLimit :
        /\ Inputs("main", TRUE,
                  [ f \in FileNames |->
                      IF f = "patients.csv" THEN Present(<<PatientText("p1", 1)>>)
                      ELSE IF f = "observations.csv"
                           THEN Present([i \in DOMAIN events |-> ObservationText(events[i])])
                           ELSE Present([i \in DOMAIN events |->
                                    EventText([events[i] EXCEPT
                                                  !.CODE = PlainCode(events[i].CODE)])]) ],
                  1, max_records, MainSizes, DefaultSeeds)
        /\ NoCohort
        /\ NoArgument

SpecCodes == InitCodes /\ [][Next]_vars

-----------------------------------------------------------------------------
(* import_to_supabase.py: main.  arg holds the arguments and the files of   *)
(* the data directory, reader_pos is the position in import_order, chunk    *)
(* the records of the table at hand, row_idx the i of batch_insert, result  *)
(* the results dict in insertion order                                      *)

\* 500 in the source (line 21), scaled to the files of the model
BATCH_SIZE == 2

MaxTableRecords == 3

\* lines 112-119: the tables in the order main appends them
Tables ==
    << [table |-> "patients",            filename |-> "patients.json",
        skip |-> "skip_patients"],
       [table |-> "patient_conditions",  filename |-> "patient_conditions.json",
        skip |-> "skip_conditions"],
       [table |-> "patient_medications", filename |-> "patient_medications.json",
        skip |-> "skip_medications"],
       [table |-> "patient_labs",        filename |-> "patient_labs.json",
        skip |-> "skip_labs"] >>

SkipFlags == { Tables[i].skip : i \in DOMAIN Tables }

\* an import order that puts patient_labs first
ImportOrderLabsFirst(skipped) ==
    SelectSeq(<<Tables[4], Tables[1], Tables[2], Tables[3]>>,
              LAMBDA t : t.skip \notin skipped)

\* lines 110-119: import_order for the skip flags that are set
ImportOrder(skipped) == SelectSeq(Tables, LAMBDA t : t.skip \notin skipped)

\* reversed(import_order)
Reversed(s) == [i \in DOMAIN s |-> s[Len(s) + 1 - i]]

\* record.pop(key, None)
Pop(record, key) == [f \in DOMAIN record \ {key} |-> record[f]]

\* the k-th record of a file of the data directory
TableRecord(k) == [patient_synthetic_id |-> k, _synthea_id |-> k]

InitImport ==
    \E credentials \in BOOLEAN, exists \in BOOLEAN, clear_existing \in BOOLEAN,
       skipped \in SUBSET SkipFlags,
       counts \in [ { Tables[i].filename : i \in DOMAIN Tables }
                        -> {-1} \cup 0..MaxTableRecords ] :
        /\ Inputs("import_main", exists, Directory(Present(<<>>), Absent),
                  0, 0, DefaultSizes, DefaultSeeds)
        /\ NoCohort
        /\ arg = [ credentials    |-> credentials,
                   clear_existing |-> clear_existing,
                   skipped        |-> skipped,
                   data           |-> [ f \in DOMAIN counts |->
                       [ exists  |-> counts[f] >= 0,
                         records |-> [k \in 1..counts[f] |-> TableRecord(k)] ] ] ]

import_order == ImportOrder(arg.skipped)

\* lines 87-107 and 122: the credentials and the data directory are
\* validated, and the client is created
ImportEnter ==
    /\ pc = "import_main"
    /\ IF ~arg.credentials \/ ~dir_exists
       THEN /\ exit_status' = "1"
            /\ pc' = "exited"
       ELSE /\ pc' = IF arg.clear_existing /\ import_order # <<>>
                     THEN "clear_table" ELSE "import"
            /\ UNCHANGED exit_status
    /\ UNCHANGED <<inserted, requests,
                   dir_exists, files, patient_limit, lab_limit, chunk_size, hash_seed,
                   out_dirs, written, content, warnings, patients, id_mapping,
                   condition_codes, medication_codes, lab_codes, patient_conditions,
                   patient_medications, relationships, reader_pos, chunks_read, chunk,
                   row_idx, prevalence, arg, result>>

\* lines 122-125 and clear_table: the next table of reversed(import_order)
\* is cleared; ok: execute() returns, else it raises and clear_table prints
ClearTable(ok) ==
    /\ pc = "clear_table"
    /\ requests' = Append(requests,
                          [ op    |-> "delete",
                            table |-> Reversed(import_order)[reader_pos + 1].table,
                            ok    |-> ok ])
    /\ IF reader_pos + 1 < Len(import_order)
       THEN /\ reader_pos' = reader_pos + 1
            /\ UNCHANGED pc
       ELSE /\ reader_pos' = 0
            /\ pc' = "import"
    /\ UNCHANGED <<inserted,
                   dir_exists, files, patient_limit, lab_limit, chunk_size, hash_seed,
                   out_dirs, written, content, exit_status, warnings, patients,
                   id_mapping, condition_codes, medication_codes, lab_codes,
                   patient_conditions, patient_medications, relationships,
                   chunks_read, chunk, row_idx, prevalence, arg, result>>

ClearExecutes == ClearTable(TRUE)

ClearRaises == ClearTable(FALSE)

\* lines 131-143: the next table of import_order; a missing file is skipped,
\* else its records are loaded, lose _synthea_id, and batch_insert is called
ImportTable ==
    /\ pc = "import"
    /\ reader_pos < Len(import_order)
    /\ LET file == arg.data[import_order[reader_pos + 1].filename]
       IN  IF ~file.exists
           THEN /\ reader_pos' = reader_pos + 1
                /\ UNCHANGED <<pc, chunk, row_idx, inserted>>
           ELSE /\ chunk' = [k \in DOMAIN file.records |->
                                Pop(file.records[k], "_synthea_id")]
                /\ row_idx' = 0
                /\ inserted' = 0
                /\ pc' = "insert"
                /\ UNCHANGED reader_pos
    /\ UNCHANGED <<requests,
                   dir_exists, files, patient_limit, lab_limit, chunk_size, hash_seed,
                   out_dirs, written, content, exit_status, warnings, patients,
                   id_mapping, condition_codes, medication_codes, lab_codes,
                   patient_conditions, patient_medications, relationships,
                   chunks_read, prevalence, arg, result>>

\* batch_insert, one turn of its loop on the records of the table
ImportInsertTurn(ok) ==
    /\ pc = "insert"
    /\ row_idx < Len(chunk)
    /\ LET batch == Batch(chunk, row_idx, BATCH_SIZE)
       IN  /\ requests' = Append(requests,
                                 [ op    |-> "insert",
                                   table |-> import_order[reader_pos + 1].table,
                                   batch |-> batch,
                                   ok    |-> ok ])
           /\ inserted' = Inserted(inserted, batch, ok)
    /\ row_idx' = row_idx + BATCH_SIZE
    /\ UNCHANGED <<dir_exists, files, patient_limit, lab_limit, chunk_size, hash_seed,
                   out_dirs, written, content, exit_status, warnings, patients,
                   id_mapping, condition_codes, medication_codes, lab_codes,
                   patient_conditions, patient_medications, relationships, reader_pos,
                   chunks_read, chunk, prevalence, arg, result, pc>>

ImportInsertExecutes == ImportInsertTurn(TRUE)

ImportInsertRaises == ImportInsertTurn(FALSE)

\* line 144: batch_insert has returned, the counts of the table are kept
ImportInsertReturn ==
    /\ pc = "insert"
    /\ row_idx >= Len(chunk)
    /\ result' = Append(result, [ table    |-> import_order[reader_pos + 1].table,
                                  loaded   |-> Len(chunk),
                                  inserted |-> inserted ])
    /\ reader_pos' = reader_pos + 1
    /\ pc' = "import"
    /\ UNCHANGED <<inserted, requests,
                   dir_exists, files, patient_limit, lab_limit, chunk_size, hash_seed,
                   out_dirs, written, content, exit_status, warnings, patients,
                   id_mapping, condition_codes, medication_codes, lab_codes,
                   patient_conditions, patient_medications, relationships,
                   chunks_read, chunk, row_idx, prevalence, arg>>

RECURSIVE TotalOf(_, _)
\* the sum of a count over the results
TotalOf(results, count) ==
    IF results = <<>> THEN 0
    ELSE results[1][count] + TotalOf(Tail(results), count)

\* lines 148-168: the summary; main exits with 1 when fewer records were
\* inserted than loaded, else it returns
ImportSummary ==
    /\ pc = "import"
    /\ reader_pos = Len(import_order)
    /\ exit_status' = IF TotalOf(result, "inserted") < TotalOf(result, "loaded")
                      THEN "1" ELSE "0"
    /\ pc' = "exited"
    /\ UNCHANGED <<inserted, requests,
                   dir_exists, files, patient_limit, lab_limit, chunk_size, hash_seed,
                   out_dirs, written, content, warnings, patients, id_mapping,
                   condition_codes, medication_codes, lab_codes, patient_conditions,
                   patient_medications, relationships, reader_pos, chunks_read, chunk,
                   row_idx, prevalence, arg, result>>

NextImport ==
    \/ ImportEnter
    \/ ClearExecutes
    \/ ClearRaises
    \/ ImportTable
    \/ ImportInsertExecutes
    \/ ImportInsertRaises
    \/ ImportInsertReturn
    \/ ImportSummary

SpecImport == InitImport /\ [][NextImport]_vars

-----------------------------------------------------------------------------
(* Properties of transform_patients                                        *)

\* min(N, R) for the cohort limit N and the R rows of the subject file
CohortSize == Min(patient_limit, Len(SubjectRows))

\* the source identifiers of the first min(N, R) rows
CohortSourceIds == { SubjectRows[k].Id : k \in 1..CohortSize }

\* the last of the first min(N, R) rows that carries a source identifier
LastRowOf(id) ==
    CHOOSE k \in 1..CohortSize :
        /\ SubjectRows[k].Id = id
        /\ \A j \in (k + 1)..CohortSize : SubjectRows[j].Id # id

\* C6 as the code has it: transform_patients emits min(N, R) subjects, the
\* k-th from the k-th row, and the lookup table has one entry per distinct
\* source identifier of those rows, which gives the subject of the last row
\* carrying it; it has min(N, R) entries exactly when those identifiers are
\* pairwise distinct.
SubjectsAndLookup ==
    pc = "returned" =>
        /\ Len(patients) = CohortSize
        /\ \A k \in 1..CohortSize : patients[k] = map_patient(SubjectRows[k], k)
        /\ DOMAIN id_mapping = CohortSourceIds
        /\ \A id \in CohortSourceIds :
              id_mapping[id] = patients[LastRowOf(id)].synthetic_id
        /\ (Cardinality(DOMAIN id_mapping) = CohortSize) <=>
              (\A j, k \in 1..CohortSize : SubjectRows[j].Id = SubjectRows[k].Id => j = k)

\* C6 happens: the limit truncates the file, and two of the rows kept carry
\* the same source identifier
SubjectsAndLookupWitness ==
    /\ pc = "returned"
    /\ 1 < patient_limit
    /\ patient_limit < Len(SubjectRows)
    /\ Len(patients) = patient_limit
    /\ Cardinality(DOMAIN id_mapping) < Len(patients)

\* C6 as stated: min(N, R) subjects and min(N, R) lookup entries, one per
\* subject.
LookupEntryPerSubject ==
    pc = "returned" =>
        /\ Len(patients) = CohortSize
        /\ Cardinality(DOMAIN id_mapping) = CohortSize

\* C7: the k-th subject has the identifier 'SYN-' followed by k zero-padded
\* to a fixed width of five digits, so that all identifiers have the same
\* length.
SyntheticIdFixedWidth ==
    pc = "returned" =>
        /\ result.synthetic_id = <<"S","Y","N","-">> \o FormatZeroPadded(arg, IdWidth)
        /\ Len(result.synthetic_id) = 4 + IdWidth

\* the identifiers up to the last index of five digits have the fixed width
SyntheticIdWidthUpToRollover ==
    (pc = "returned" /\ arg < 10^IdWidth) => Len(result.synthetic_id) = 4 + IdWidth

-----------------------------------------------------------------------------
(* Properties of the relationship builders                                 *)

\* the synthetic identifiers of the emitted subjects
SubjectIds == { patients[i].synthetic_id : i \in DOMAIN patients }

\* the subject identifiers a relationship collection refers to
ReferredIds(rels) == { rels[i].patient_synthetic_id : i \in DOMAIN rels }

\* the rows of an event file whose subject is in the cohort
CohortRows(filename) ==
    FilterCohort(files[filename].rows, DOMAIN id_mapping)

\* C1: every relationship record (condition, medication, lab) carries the
\* synthetic identifier of a subject the run emitted; rows of subjects
\* outside the cohort give no record.
ReferentialIntegrity ==
    /\ ReferredIds(patient_conditions) \subseteq SubjectIds
    /\ ReferredIds(patient_medications) \subseteq SubjectIds
    /\ ReferredIds(relationships) \subseteq SubjectIds
    /\ pc = "returned" =>
          /\ Len(patient_conditions) <= Len(CohortRows("conditions.csv"))
          /\ Len(patient_medications) <= Len(CohortRows("medications.csv"))

\* C1 happens: the condition builder has returned records for a file that
\* also holds rows of a subject outside the cohort
ReferentialIntegrityWitness ==
    /\ pc = "returned"
    /\ Len(patient_conditions) > 0
    /\ Len(patient_conditions) < Len(files["conditions.csv"].rows)

\* C4: at every point of build_patient_labs the output holds at most
\* max_records relationships.
LabCapNeverExceeded == Len(relationships) <= lab_limit

\* C4 happens: the builder has returned with the cap reached while the file
\* holds more rows of the cohort than the cap
LabCapWitness ==
    /\ pc = "labs_return"
    /\ lab_limit > 0
    /\ Len(relationships) = lab_limit
    /\ Len(CohortRows("observations.csv")) > lab_limit

\* C5: once the output holds max_records relationships (one at least, so
\* that the cap was reached by appending), build_patient_labs reads no
\* further chunk of the observation file.
NoReadAfterCap ==
    [][ ( /\ pc \in {"labs_for", "labs_row"}
          /\ Len(relationships) > 0
          /\ CapReached(relationships, lab_limit) )
            => chunks_read' = chunks_read ]_vars

-----------------------------------------------------------------------------
(* Properties of the catalog builders                                      *)

\* no two entries of a catalog have the same code
CodesUnique(catalog) ==
    \A i, j \in DOMAIN catalog : catalog[i].code = catalog[j].code => i = j

\* C2: in each of the three catalogs no two entries have the same code.
CatalogCodesUnique ==
    /\ CodesUnique(condition_codes)
    /\ CodesUnique(medication_codes)
    /\ CodesUnique(lab_codes)

\* the lab catalog alone has unique codes: it is keyed by str(CODE)
LabCodesUnique == CodesUnique(lab_codes)

\* the first of the rows that carries a code
FirstWithCode(rows, code) ==
    rows[CHOOSE i \in DOMAIN rows :
            /\ Str(rows[i].CODE) = code
            /\ \A j \in 1..(i - 1) : Str(rows[j].CODE) # code]

\* the parsed rows of an event file whose subject is in the cohort
ParsedCohortRows(filename) ==
    FilterCohort(
        IF filename = "observations.csv"
        THEN ParseObservationRows(files[filename].rows)
        ELSE load_synthea_csv(files[filename], filename).df.rows,
        DOMAIN id_mapping)

\* C3: every catalog entry is derived from the first row, among the rows of
\* the cohort, that carries its code.
FirstRowWins ==
    pc = "returned" =>
        /\ \A i \in DOMAIN condition_codes :
              condition_codes[i] =
                  map_condition_code(FirstWithCode(ParsedCohortRows("conditions.csv"),
                                                   condition_codes[i].code),
                                     hash_seed[1])
        /\ \A i \in DOMAIN medication_codes :
              medication_codes[i] =
                  map_medication_code(FirstWithCode(ParsedCohortRows("medications.csv"),
                                                    medication_codes[i].code))
        /\ \A i \in DOMAIN lab_codes :
              lab_codes[i] =
                  map_lab_code(FirstWithCode(ParsedCohortRows("observations.csv"),
                                             lab_codes[i].code))

\* the lab catalog alone keeps the first row of every code, whatever the
\* chunk size
LabFirstRowWins ==
    pc = "returned" =>
        \A i \in DOMAIN lab_codes :
            lab_codes[i] =
                map_lab_code(FirstWithCode(ParsedCohortRows("observations.csv"),
                                           lab_codes[i].code))

-----------------------------------------------------------------------------
(* Properties of the prevalence estimate                                   *)

\* C10: the prevalence estimate of a code is the same in every process, and
\* is one of 0.01, 0.02, ..., 0.30 (here in hundredths).
PrevalenceFunctionOfCode ==
    /\ \A p, q \in DOMAIN prevalence : prevalence[p] = prevalence[q]
    /\ \A p \in DOMAIN prevalence : prevalence[p] \in 1..30

\* the range alone holds for every hash value, negative ones included
PrevalenceInRange == \A p \in DOMAIN prevalence : prevalence[p] \in 1..30

-----------------------------------------------------------------------------
(* Properties of main                                                      *)

\* the run has ended: main returned, called sys.exit, or an exception ended it
Ended == pc \in {"returned", "exited", "KeyError"}

\* the subject file is there and has rows
SubjectsPresent ==
    /\ dir_exists
    /\ files["patients.csv"].exists
    /\ files["patients.csv"].rows # <<>>

\* the catalog and the relationship output of an event file
CatalogFile(f) ==
    CASE f = "conditions.csv"   -> "static/condition_codes.json"
      [] f = "medications.csv"  -> "static/medication_codes.json"
      [] f = "observations.csv" -> "static/lab_codes.json"

RelationshipFile(f) ==
    CASE f = "conditions.csv"   -> "supabase/patient_conditions.json"
      [] f = "medications.csv"  -> "supabase/patient_medications.json"
      [] f = "observations.csv" -> "supabase/patient_labs.json"

\* a run with the subject file and without event file f ends as a
\* degraded run: a warning, completion, and empty outputs for f
Degrades(f) ==
    (SubjectsPresent /\ ~files[f].exists /\ Ended) =>
        /\ pc = "returned"
        /\ exit_status = "0"
        /\ f \in warnings
        /\ content[CatalogFile(f)] = <<>>
        /\ content[RelationshipFile(f)] = <<>>

\* C8: when the subject file is present and one of the optional event files
\* is absent, the run warns, completes, and writes the catalog and the
\* relationship output of that file as empty collections.
MissingOptionalFileDegrades == \A f \in OptionalFiles : Degrades(f)

\* of the three optional files, the absence of the observation file is
\* handled as C8 says
MissingObservationsDegrades == Degrades("observations.csv")

\* C9 as the code has it: without the subject file main ends in phase 1 with
\* status 1 and has written no file, data or manifest; what it has created
\* by then are the two output directories, static and supabase, unless the
\* input directory is missing too.
AbortWritesNoFile ==
    ~files["patients.csv"].exists =>
        /\ pc \in {"main", "phase1", "exited"}
        /\ written = <<>>
        /\ content = EmptyDict
        /\ pc = "exited" =>
              /\ exit_status = "1"
              /\ out_dirs = IF dir_exists THEN {"static", "supabase"} ELSE {}

\* C9 happens: the input directory is there, the subject file is not, and
\* main has exited after the warning of load_synthea_csv
AbortWitness ==
    /\ pc = "exited"
    /\ dir_exists
    /\ ~files["patients.csv"].exists
    /\ "patients.csv" \in warnings
    /\ exit_status = "1"

\* C9 as stated: at the abort nothing has been created or written under the
\* output directory.
AbortCreatesNothing ==
    (pc = "exited" /\ ~files["patients.csv"].exists) =>
        /\ exit_status = "1"
        /\ written = <<>>
        /\ out_dirs = {}

-----------------------------------------------------------------------------
(* Properties of the categorisation functions                              *)

\* the labels of a keyword table
Labels(table) == { table[i][2] : i \in DOMAIN table }

\* the closed label set of a categorisation function
LabelSet(fn) ==
    {"Other"} \cup
    ( CASE fn = "_categorize_condition" -> Labels(categories)
        [] fn = "_categorize_drug"      -> Labels(drug_classes)
        [] fn = "_categorize_lab"       -> Labels(lab_categories) )

\* C11: each categorisation function returns, for every description, the
\* empty one included, one label of its closed label set.
CategorizationTotal ==
    pc = "returned" => result.value \in LabelSet(result.fn)

\* C11 happens: the lab categorisation has returned the default label for
\* the empty description
CategorizationTotalWitness ==
    /\ pc = "returned"
    /\ arg = <<>>
    /\ result = [fn |-> "_categorize_lab", value |-> "Other"]

\* the order of the condition categories
CategoryOrder ==
    << "Cardiovascular", "Endocrine", "Respiratory", "Oncology", "Mental Health",
       "Musculoskeletal", "Genitourinary", "Digestive", "Nervous System",
       "Infectious", "Blood/Immune", "Pregnancy", "Skin", "Social/Administrative" >>

\* row i of the condition table has a keyword in the case-folded description
RowMatches(i, description) ==
    \E k \in DOMAIN categories[i][1] : Contains(categories[i][1][k], Lower(description))

\* C12: _categorize_condition returns the label of the first row, in the
\* order of the categories, that has a keyword in the case-folded
\* description, and "Other" only when no row has one.
FirstCategoryWins ==
    /\ \A i \in DOMAIN CategoryOrder : categories[i][2] = CategoryOrder[i]
    /\ Len(categories) = Len(CategoryOrder)
    /\ (pc = "returned" /\ result.fn = "_categorize_condition") =>
          /\ \A i \in DOMAIN CategoryOrder :
                ( /\ RowMatches(i, arg)
                  /\ \A j \in 1..(i - 1) : ~RowMatches(j, arg) )
                    => result.value = CategoryOrder[i]
          /\ result.value = "Other" <=>
                \A i \in DOMAIN CategoryOrder : ~RowMatches(i, arg)

\* C12 happens: the description has keywords of two rows (pneumonia is a
\* keyword of Respiratory and of Infectious) and the earlier row wins
FirstCategoryWinsWitness ==
    /\ pc = "returned"
    /\ result = [fn |-> "_categorize_condition", value |-> "Respiratory"]
    /\ RowMatches(3, arg)
    /\ RowMatches(10, arg)

-----------------------------------------------------------------------------
(* Properties of map_patient_lab                                           *)

\* the VALUE field of the mapped row as the file has it
ValueText == files["observations.csv"].rows[arg].VALUE

\* the text is a decimal number
IsNumberText(t) == IsIntText(t) \/ IsFloatText(t)

\* t is the start of s
IsPrefix(t, s) == Len(t) <= Len(s) /\ SubSeq(s, 1, Len(t)) = t

-----------------------------------------------------------------------------
(* Properties of _get_normal_range                                         *)

\* the description and the unit of the mapped row as the file has them
DescriptionOfRow == files["observations.csv"].rows[arg].DESCRIPTION
UnitOfRow        == files["observations.csv"].rows[arg].UNITS

\* entry i of the table qualifies: its keyword is in the lower-cased
\* description, and its unit hint is empty or in the lower-cased unit
Qualifies(i) ==
    /\ Contains(ranges[i][1], Lower(DescriptionOfRow))
    /\ ranges[i][2] = <<>> \/ Contains(ranges[i][2], Lower(UnitOfRow))

\* the fields of a lab catalog entry without ranges
LabFields == {"code", "name", "loincCode", "category", "unit"}

\* the range fields of a lab catalog entry
RangeOf(entry) == [f \in (DOMAIN entry) \ LabFields |-> entry[f]]

CriticalFields == {"criticalLow", "criticalHigh"}

\* C14: the entry carries the bounds of the first table entry that
\* qualifies, entries with a keyword but without their unit being skipped;
\* the critical bounds come only with glucose and potassium; without a
\* qualifying entry there are no range fields.
FirstQualifyingRange ==
    pc = "returned" =>
        /\ \A i \in DOMAIN ranges :
              (Qualifies(i) /\ \A j \in 1..(i - 1) : ~Qualifies(j))
                  => /\ RangeOf(result) = ranges[i][3]
                     /\ {"normalLow", "normalHigh"} \subseteq DOMAIN result
                     /\ (CriticalFields \subseteq DOMAIN result) <=>
                            ranges[i][1] \in { <<"g","l","u","c","o","s","e">>,
                                                <<"p","o","t","a","s","s","i","u","m">> }
        /\ (\A i \in DOMAIN ranges : ~Qualifies(i)) => DOMAIN result = LabFields
        /\ CriticalFields \cap DOMAIN result \in {{}, CriticalFields}

\* C14 happens: glucose is in the description but its unit hint is not in
\* the unit, and the later entry of hemoglobin a1c supplies the bounds
FirstQualifyingRangeWitness ==
    /\ pc = "returned"
    /\ Contains(ranges[1][1], Lower(DescriptionOfRow))
    /\ ~Qualifies(1)
    /\ Qualifies(2)
    /\ RangeOf(result) = ranges[2][3]

-----------------------------------------------------------------------------
(* Properties of _extract_generic_name                                     *)

\* every character of the token is a letter
IsAlphaToken(t) == t # <<>> /\ \A i \in DOMAIN t : IsAlpha(t[i])

\* the leading run of one or two whole alphabetic tokens of a description
\* that starts with one, the tokens being separated by one space
LeadingAlphaTokens(tokens) ==
    IF Len(tokens) >= 2 /\ IsAlphaToken(tokens[2])
    THEN tokens[1] \o <<" ">> \o tokens[2]
    ELSE tokens[1]

\* C15: the generic name is, lower-cased, the leading run of one or two
\* whole alphabetic tokens; the first token when the description does not
\* start with an alphabetic token; and 'unknown' for a blank description.
GenericNameWholeTokens ==
    pc = "returned" =>
        LET tokens == Split(arg)
        IN  result.value =
                IF tokens = <<>> THEN <<"u","n","k","n","o","w","n">>
                ELSE IF IsAlphaToken(tokens[1]) /\ IsAlpha(arg[1])
                     THEN Lower(LeadingAlphaTokens(tokens))
                     ELSE Lower(tokens[1])

\* what holds: the generic name is 'unknown' for a blank description, else
\* the first token when that starts with no letter
GenericNameFallback ==
    pc = "returned" =>
        LET tokens == Split(arg)
        IN  /\ tokens = <<>> => result.value = <<"u","n","k","n","o","w","n">>
            /\ (tokens # <<>> /\ ~IsAlpha(arg[1])) => result.value = Lower(tokens[1])

-----------------------------------------------------------------------------
(* Properties of the display name of map_condition_code                    *)

\* str(row["DESCRIPTION"]) of the mapped row
DescriptionOfCondition ==
    Str(load_synthea_csv(files["conditions.csv"], "conditions.csv").df.rows[arg].DESCRIPTION)

EndsWith(s, suffix) ==
    Len(suffix) <= Len(s) /\ SubSeq(s, Len(s) - Len(suffix) + 1, Len(s)) = suffix

\* the description without the boilerplate suffix it ends with, if any
WithoutSuffix(s) ==
    IF \E k \in DOMAIN suffixes : EndsWith(s, suffixes[k])
    THEN LET k == CHOOSE j \in DOMAIN suffixes : EndsWith(s, suffixes[j])
         IN  SubSeq(s, 1, Len(s) - Len(suffixes[k]))
    ELSE s

\* C16: the display name is the description with a boilerplate suffix
\* stripped from its end, cut to 200 characters; the other text of the
\* description is unchanged, and the name has at most 200 characters.
NameStripsSuffixOnly ==
    pc = "returned" =>
        /\ result.value.name = Truncate(WithoutSuffix(DescriptionOfCondition), 200)
        /\ Len(result.value.name) <= 200

\* what holds of the cap: the name never exceeds 200 characters
NameAtMost200 == pc = "returned" => Len(result.value.name) <= 200

-----------------------------------------------------------------------------
(* Properties of batch_insert                                              *)

\* batch k of the records, counted from 1
BatchNumber(k) == Batch(arg.records, (k - 1) * arg.batch_size, arg.batch_size)

\* the number of batches of the records
NumBatches == (Len(arg.records) + arg.batch_size - 1) \div arg.batch_size

\* the total size of the first k requests that succeeded
RECURSIVE SizeOfSucceeded(_)
SizeOfSucceeded(k) ==
    IF k = 0 THEN 0
    ELSE SizeOfSucceeded(k - 1) + (IF requests[k].ok THEN Len(requests[k].batch) ELSE 0)

\* the batches of the first k requests, one after the other
RECURSIVE Requested(_)
Requested(k) == IF k = 0 THEN <<>> ELSE Requested(k - 1) \o requests[k].batch

\* C17: the requests are the consecutive batches of the records, each of
\* batch_size records but for a shorter last one, each attempted once and in
\* order whatever became of the batches before it; on return every batch
\* has been attempted and the count is the total size of those that
\* succeeded.
BatchInsertContinues ==
    /\ \A k \in DOMAIN requests :
          /\ requests[k].batch = BatchNumber(k)
          /\ Len(requests[k].batch) = arg.batch_size
                \/ (k = NumBatches /\ Len(requests[k].batch) \in 1..arg.batch_size)
    /\ Len(requests) <= NumBatches
    /\ inserted = SizeOfSucceeded(Len(requests))
    /\ pc = "returned" =>
          /\ Len(requests) = NumBatches
          /\ Requested(Len(requests)) = arg.records
          /\ result = SizeOfSucceeded(Len(requests))

\* C17 happens: a batch failed, a later batch was inserted, the last batch
\* was shorter, and the function returned
BatchInsertWitness ==
    /\ pc = "returned"
    /\ \E i, j \in DOMAIN requests : i < j /\ ~requests[i].ok /\ requests[j].ok
    /\ Len(requests[Len(requests)].batch) < arg.batch_size
    /\ result < Len(arg.records)

-----------------------------------------------------------------------------
(* Properties of the validator                                             *)

\* the file exists and two of its records share the value of the field
SharesValue(f, field) ==
    /\ arg[f].exists
    /\ \E i, j \in DOMAIN arg[f].records :
          i # j /\ arg[f].records[i][field] = arg[f].records[j][field]

UniqueField ==
    [ f \in {"condition_codes.json", "medication_codes.json", "lab_codes.json",
             "patients.json"} |->
        IF f = "patients.json" THEN "synthetic_id" ELSE "code" ]

\* C18: a catalog file or the subjects file in which two records share the
\* code (the synthetic_id) is reported invalid, and the validator exits
\* nonzero.
ValidatorRejectsDuplicates ==
    pc = "exited" =>
        \A f \in DOMAIN UniqueField :
            SharesValue(f, UniqueField[f]) => ~result[f] /\ exit_status = "1"

\* what holds: the same for the files other than the lab catalog
ValidatorRejectsDuplicatesButLabs ==
    pc = "exited" =>
        \A f \in DOMAIN UniqueField \ {"lab_codes.json"} :
            SharesValue(f, UniqueField[f]) => ~result[f] /\ exit_status = "1"

-----------------------------------------------------------------------------
(* Idempotence of the deduplication                                        *)

\* the frame of the deduplicated rows of the cohort of an event file
DeduplicatedFrame(filename) ==
    [columns |-> EventColumns, rows |-> DropDuplicates(ParsedCohortRows(filename))]

\* unique_labs at the end of extract_lab_codes' loop, begun with a dict
UniqueLabsFrom(unique_labs) ==
    LabCodesChunks(files["observations.csv"], 0, chunk_size.codes, DOMAIN id_mapping,
                   unique_labs)

\* the filtered rows of every chunk of the observation file
FilteredChunks ==
    { FilterCohort(NextChunk(files["observations.csv"], pos, chunk_size.codes),
                   DOMAIN id_mapping) :
        pos \in { p \in 0..Len(files["observations.csv"].rows) :
                    p % chunk_size.codes = 0 } }

\* C19: the deduplication is idempotent.  Deduplicating the deduplicated
\* rows of the cohort returns them unchanged, and a catalog builder run on
\* them, or run once more, gives the codes and the entries of the first run;
\* a second pass of the lab builder over its chunks adds nothing to its
\* dict.
DedupIdempotent ==
    pc = "returned" =>
        /\ condition_codes # <<>> =>
              LET frame == DeduplicatedFrame("conditions.csv")
              IN  /\ DropDuplicates(frame.rows) = frame.rows
                  /\ extract_condition_codes(frame, DOMAIN id_mapping,
                                             hash_seed[1]).value = condition_codes
                  /\ extract_condition_codes(
                         load_synthea_csv(files["conditions.csv"], "conditions.csv").df,
                         DOMAIN id_mapping, hash_seed[1]).value = condition_codes
        /\ medication_codes # <<>> =>
              LET frame == DeduplicatedFrame("medications.csv")
              IN  /\ DropDuplicates(frame.rows) = frame.rows
                  /\ extract_medication_codes(frame, DOMAIN id_mapping).value
                        = medication_codes
                  /\ extract_medication_codes(
                         load_synthea_csv(files["medications.csv"], "medications.csv").df,
                         DOMAIN id_mapping).value = medication_codes
        /\ lab_codes # <<>> =>
              LET unique_labs == UniqueLabsFrom(<<>>)
              IN  /\ \A rows \in FilteredChunks :
                        DropDuplicates(DropDuplicates(rows)) = DropDuplicates(rows)
                  /\ [i \in DOMAIN unique_labs |-> unique_labs[i][2]] = lab_codes
                  /\ UniqueLabsFrom(unique_labs) = unique_labs

\* C19 happens: the lab builder returned a catalog with fewer entries than
\* the cohort has rows, some of them in different chunks
DedupIdempotentWitness ==
    /\ pc = "returned"
    /\ lab_codes # <<>>
    /\ Len(lab_codes) < Len(ParsedCohortRows("observations.csv"))
    /\ chunk_size.codes < Len(files["observations.csv"].rows)

-----------------------------------------------------------------------------
(* The codes of a catalog                                                  *)

\* the rows of an event file as the frame has them
ParsedRows(filename) ==
    IF filename = "observations.csv"
    THEN ParseObservationRows(files[filename].rows)
    ELSE load_synthea_csv(files[filename], filename).df.rows

\* the codes carried by the rows whose PATIENT is in the cohort id set
CodesOfCohort(filename) ==
    { Str(ParsedRows(filename)[i].CODE) :
        i \in { j \in DOMAIN ParsedRows(filename) :
                  ParsedRows(filename)[j].PATIENT \in DOMAIN id_mapping } }

\* the codes carried by rows of subjects outside the cohort only
CodesOutsideCohortOnly(filename) ==
    { Str(ParsedRows(filename)[i].CODE) : i \in DOMAIN ParsedRows(filename) }
        \ CodesOfCohort(filename)

CodesIn(catalog) == { catalog[i].code : i \in DOMAIN catalog }

-----------------------------------------------------------------------------
(* The order of the phases of main                                         *)

\* the place of a position of main in the order of its phases: phase 7 is
\* build_patient_labs, 8 the saving of the files, 9 a run that has ended
PhaseOf ==
    [ p \in {"main", "phase1", "phase2", "phase3", "phase4", "phase5", "phase6",
             "build_patient_labs", "labs_for", "labs_row", "labs_return", "phase8",
             "returned", "exited", "KeyError"} |->
        CASE p = "main"   -> 0
          [] p = "phase1" -> 1
          [] p = "phase2" -> 2
          [] p = "phase3" -> 3
          [] p = "phase4" -> 4
          [] p = "phase5" -> 5
          [] p = "phase6" -> 6
          [] p \in {"build_patient_labs", "labs_for", "labs_row"} -> 7
          [] p \in {"labs_return", "phase8"} -> 8
          [] OTHER -> 9 ]

\* the data files the manifest lists (generate_manifest)
ManifestFiles ==
    { "static/condition_codes.json", "static/medication_codes.json",
      "static/lab_codes.json", "supabase/patients.json",
      "supabase/patient_conditions.json", "supabase/patient_medications.json",
      "supabase/patient_labs.json" }

\* the files written before the i-th
WrittenBefore(i) == { written[j] : j \in 1..(i - 1) }

\* a step keeps the order of the phases: the position never goes back, the
\* result of a phase changes in that phase only, the observation file is
\* read in the lab phase only, and files are written after the seven phases
PhaseStep ==
    /\ PhaseOf[pc'] >= PhaseOf[pc]
    /\ (patients' # patients \/ id_mapping' # id_mapping) => PhaseOf[pc] = 1
    /\ condition_codes' # condition_codes => PhaseOf[pc] = 2
    /\ medication_codes' # medication_codes => PhaseOf[pc] = 3
    /\ lab_codes' # lab_codes => PhaseOf[pc] = 4
    /\ patient_conditions' # patient_conditions => PhaseOf[pc] = 5
    /\ patient_medications' # patient_medications => PhaseOf[pc] = 6
    /\ (relationships' # relationships \/ reader_pos' # reader_pos \/ chunk' # chunk)
          => PhaseOf[pc] = 7
    /\ (written' # written \/ content' # content) => PhaseOf[pc] = 8

\* C21: the run is phase-ordered.  A phase has finished with its input
\* when the next begins, no data file is written before the seven phases
\* have completed, and the manifest is written after every data file.
PhaseOrdered ==
    /\ [][PhaseStep]_vars
    /\ [](written # <<>> => PhaseOf[pc] >= 8)
    /\ [](\A i \in DOMAIN written :
             /\ written[i] = "manifest.json" => ManifestFiles \subseteq WrittenBefore(i)
             /\ written[i] \notin WrittenBefore(i))

\* C21 happens: a run in which every phase produced records has written the
\* seven data files and then the manifest
PhaseOrderedWitness ==
    /\ pc = "returned"
    /\ Len(written) = 8
    /\ written[8] = "manifest.json"
    /\ patients # <<>> /\ condition_codes # <<>> /\ medication_codes # <<>>
    /\ lab_codes # <<>> /\ patient_conditions # <<>> /\ patient_medications # <<>>
    /\ relationships # <<>>

-----------------------------------------------------------------------------
(* The image of the cohort rows                                            *)

\* the positions of the rows of an event file whose PATIENT is in the lookup
CohortPositions(filename) ==
    { i \in DOMAIN ParsedRows(filename) :
        ParsedRows(filename)[i].PATIENT \in DOMAIN id_mapping }

\* the k-th of them, in the order of the file
CohortRow(filename, k) ==
    LET i == CHOOSE p \in CohortPositions(filename) :
                 Cardinality({ q \in CohortPositions(filename) : q <= p }) = k
    IN  ParsedRows(filename)[i]

\* C22: build_patient_conditions and build_patient_medications return one
\* record for every row whose PATIENT is in the lookup, in the order of the
\* rows, and none for the other rows, which they pass over without an
\* error and without ending the loop.
ImageOfCohortRows ==
    [][ /\ pc = "build_patient_conditions" =>
              /\ pc' = "returned"
              /\ Len(patient_conditions') = Cardinality(CohortPositions("conditions.csv"))
              /\ \A k \in DOMAIN patient_conditions' :
                    LET row == CohortRow("conditions.csv", k)
                    IN  patient_conditions'[k] =
                            map_patient_condition(id_mapping[row.PATIENT], row)
        /\ pc = "build_patient_medications" =>
              /\ pc' = "returned"
              /\ Len(patient_medications') = Cardinality(CohortPositions("medications.csv"))
              /\ \A k \in DOMAIN patient_medications' :
                    LET row == CohortRow("medications.csv", k)
                    IN  patient_medications'[k] =
                            map_patient_medication(id_mapping[row.PATIENT], row) ]_vars

\* C22 happens: the condition builder has returned the records of two rows
\* of the cohort that stand on either side of a row of another subject
ImageOfCohortRowsWitness ==
    /\ pc = "returned"
    /\ Len(patient_conditions) = 2
    /\ \E i, j, k \in DOMAIN files["conditions.csv"].rows :
          /\ i < j /\ j < k
          /\ {i, k} \subseteq CohortPositions("conditions.csv")
          /\ j \notin CohortPositions("conditions.csv")

-----------------------------------------------------------------------------
(* The lab catalog and the chunk size                                      *)

\* the catalog of a single pass: the observation file read as one chunk,
\* filtered, and the first row of every code mapped
SinglePassCatalog ==
    LET file   == files["observations.csv"]
        stream == FilterCohort(NextChunk(file, 0, Len(file.rows)), DOMAIN id_mapping)
        firsts == SelectSeq([i \in DOMAIN stream |-> i],
                            LAMBDA i : \A j \in 1..(i - 1) :
                                          Str(stream[j].CODE) # Str(stream[i].CODE))
    IN  [k \in DOMAIN firsts |-> map_lab_code(stream[firsts[k]])]

\* C23: the catalog extract_lab_codes returns is the same for every chunk
\* size, entries and order: that of a single pass over the rows of the cohort
\* that keeps the first row of every code.
ChunkSizeIndependent ==
    /\ \A s, t \in DOMAIN result : result[s] = result[t]
    /\ \A s \in DOMAIN result : result[s] = SinglePassCatalog

\* no CODE of the file is a number written with a leading zero
NoLeadingZeroCode ==
    \A i \in DOMAIN files["observations.csv"].rows :
        LET code == files["observations.csv"].rows[i].CODE
        IN  IsIntText(code) => StripLeadingZeros(code) = code

\* what holds: the same for files whose numeric codes have no leading zero
ChunkSizeIndependentOfPlainCodes == NoLeadingZeroCode => ChunkSizeIndependent

-----------------------------------------------------------------------------
(* The records of build_patient_labs                                       *)

\* the k-th row of the cohort in the observation file read in one pass
CohortObservation(k) ==
    LET file == files["observations.csv"]
    IN  FilterCohort(NextChunk(file, 0, Len(file.rows)), DOMAIN id_mapping)[k]

\* row i of the observation file as the chunk that holds it gives it
ChunkedObservation(i) ==
    LET size == chunk_size.labs
    IN  NextChunk(files["observations.csv"], ((i - 1) \div size) * size, size)
            [((i - 1) % size) + 1]

\* the position in the file of the k-th row of the cohort
CohortObservationPosition(k) ==
    CHOOSE p \in CohortPositions("observations.csv") :
        Cardinality({ q \in CohortPositions("observations.csv") : q <= p }) = k

\* C24: with cap N and M rows of the cohort, build_patient_labs returns the
\* records of the first min(N, M) rows of the cohort, in the order of the
\* stream, whatever the chunk size and the rows of other subjects between
\* them.
LabsFirstCohortRows ==
    pc = "labs_return" =>
        /\ Len(relationships)
              = Min(lab_limit, Cardinality(CohortPositions("observations.csv")))
        /\ \A k \in DOMAIN relationships :
              relationships[k] =
                  map_patient_lab(id_mapping[CohortObservation(k).PATIENT],
                                  CohortObservation(k))

\* what holds: the rows taken are the first min(N, M) rows of the cohort,
\* each mapped as its own chunk has parsed it
LabsFirstCohortRowsAsChunked ==
    pc = "labs_return" =>
        /\ Len(relationships)
              = Min(lab_limit, Cardinality(CohortPositions("observations.csv")))
        /\ \A k \in DOMAIN relationships :
              LET row == ChunkedObservation(CohortObservationPosition(k))
              IN  relationships[k] = map_patient_lab(id_mapping[row.PATIENT], row)

-----------------------------------------------------------------------------
(* The codes of the relationship records and the catalogs of the same run  *)

\* C25: when main has returned, every code of a relationship record
\* (condition_code, medication_code, lab_code) is the code of an entry of
\* the catalog of the same run.
ReferencedCodesInCatalogs ==
    pc = "returned" =>
        /\ \A i \in DOMAIN patient_conditions :
              patient_conditions[i].condition_code \in CodesIn(condition_codes)
        /\ \A i \in DOMAIN patient_medications :
              patient_medications[i].medication_code \in CodesIn(medication_codes)
        /\ \A i \in DOMAIN relationships :
              relationships[i].lab_code \in CodesIn(lab_codes)

\* what holds: the same for the conditions and the medications, and for the
\* labs of files whose numeric codes have no leading zero
ReferencedPlainCodesInCatalogs ==
    pc = "returned" =>
        /\ \A i \in DOMAIN patient_conditions :
              patient_conditions[i].condition_code \in CodesIn(condition_codes)
        /\ \A i \in DOMAIN patient_medications :
              patient_medications[i].medication_code \in CodesIn(medication_codes)
        /\ NoLeadingZeroCode =>
              \A i \in DOMAIN relationships :
                  relationships[i].lab_code \in CodesIn(lab_codes)

-----------------------------------------------------------------------------
(* The import script: order of the requests and exit status                 *)

TableIndex(table) == CHOOSE i \in DOMAIN Tables : Tables[i].table = table

Deletes == SelectSeq(requests, LAMBDA r : r.op = "delete")

InsertsOf(table) == SelectSeq(requests, LAMBDA r : r.op = "insert" /\ r.table = table)

RECURSIVE InsertedBy(_)
\* the total size of the batches whose insert succeeded
InsertedBy(rs) ==
    IF rs = <<>> THEN 0
    ELSE (IF rs[1].op = "insert" /\ rs[1].ok THEN Len(rs[1].batch) ELSE 0)
            + InsertedBy(Tail(rs))

RECURSIVE BatchesOf(_)
\* the batches of insert requests, one after the other
BatchesOf(rs) == IF rs = <<>> THEN <<>> ELSE rs[1].batch \o BatchesOf(Tail(rs))

\* the records of the files of the selected tables that exist
RECURSIVE LoadedFrom(_)
LoadedFrom(order) ==
    IF order = <<>> THEN 0
    ELSE Len(arg.data[order[1].filename].records) + LoadedFrom(Tail(order))

\* the credentials and the data directory have passed the validation
ImportStarted == arg.credentials /\ dir_exists

\* inserts go table by table in the order patients, patient_conditions,
\* patient_medications, patient_labs; the clears are those of the selected
\* tables in the reverse order, all of them before the first insert; when
\* main is done every record of every selected file has been requested,
\* whatever became of the batches before it
ImportSequence ==
    /\ \A i, j \in DOMAIN requests :
          (i < j /\ requests[j].op = "insert") =>
              \/ requests[i].op = "delete"
              \/ TableIndex(requests[i].table) <= TableIndex(requests[j].table)
    /\ \A i, j \in DOMAIN requests :
          (i < j /\ requests[i].op = "insert") => requests[j].op = "insert"
    /\ \A k \in DOMAIN Deletes :
          Deletes[k].table = Reversed(import_order)[k].table
    /\ (pc \in {"import", "insert"} \/ (pc = "exited" /\ ImportStarted)) =>
          Len(Deletes) = IF arg.clear_existing THEN Len(import_order) ELSE 0
    /\ (pc = "exited" /\ ImportStarted) =>
          \A k \in DOMAIN import_order :
              LET file == arg.data[import_order[k].filename]
              IN  BatchesOf(InsertsOf(import_order[k].table)) =
                      [n \in DOMAIN file.records |-> Pop(file.records[n], "_synthea_id")]

\* fewer records were inserted than loaded, which is to say a batch failed
FewerInserted ==
    /\ InsertedBy(requests) < LoadedFrom(import_order)
    /\ \E k \in DOMAIN requests : requests[k].op = "insert" /\ ~requests[k].ok

AllInserted ==
    /\ InsertedBy(requests) = LoadedFrom(import_order)
    /\ \A k \in DOMAIN requests : requests[k].op = "insert" => requests[k].ok

=============================================================================
